---- MODULE Spec2Model ----
(***************************************************************************)
(* django-tenant-authx: the tenant / membership / role / permission store, *)
(* the permission evaluation engine (PermissionChecker), the identity      *)
(* context (TenantUser) and the access-control guards built on them.       *)
(*                                                                         *)
(* Rows are named by their unique keys: a membership by (user, tenant), a  *)
(* role by (tenant, name), a permission by (tenant, codename).             *)
(***************************************************************************)
EXTENDS Integers, FiniteSets, Sequences, TLC

\* Python's None and a present value v, as the sets {} and {v}
None == {}
Some(v) == {v}
Val(o) == CHOOSE v \in o : TRUE

Users == {"u1"}
Tenants == {"t1", "t2"}
Codenames == {"orders.view_order", "orders.delete_order"}

\* role rows that can exist: (tenant, name) is unique
Roles == {<<"t1", "Admin">>, <<"t2", "Admin">>}
\* permission rows that can exist: (tenant, codename) is unique
Permissions == {<<"t1", "orders.view_order">>, <<"t2", "orders.view_order">>}
MembershipKeys == Users \X Tenants

VARIABLES
    tenant_is_active,   \* Tenant.is_active of every tenant row
    memberships,        \* TenantMembership rows: key -> [is_active, roles]
    roles,              \* Role rows: key -> [is_active, permissions]
    permissions,        \* Permission rows (set of keys)
    SUPERUSER_BYPASS,   \* tenant_authx_settings.SUPERUSER_BYPASS
    outcome,            \* how the last store operation ended
    tu,                 \* the TenantUser instance of the request in progress, or None
    first,              \* what that instance's first evaluations returned
    table,              \* the tenant_authx_membership table under concurrent writers
    calls,              \* the membership-creating calls in progress on that table
    tenants,            \* Tenant rows with their slug and domain: pk -> [slug, domain, is_active]
    settings,           \* tenant_authx_settings and the database behind the models
    http_request,       \* the request object the middleware chain works on
    trace,              \* what the chain did with the last request
    audited             \* the last permission evaluation or guard call and its audit events

storeVars == <<tenant_is_active, memberships, roles, permissions>>
\* the membership table seen row by row, with its writers
tableVars == <<table, calls>>
\* the tenants as the resolvers see them, and a request on its way through the chain
webVars == <<tenants, settings, http_request, trace>>
\* what the store operations and the identity context leave alone
extVars == <<tableVars, webVars, audited>>
\* what the writers of the membership table leave alone
notTableVars == <<storeVars, SUPERUSER_BYPASS, outcome, tu, first, webVars, audited>>
vars == <<tenant_is_active, memberships, roles, permissions, SUPERUSER_BYPASS,
          outcome, tu, first, extVars>>

\* a completed operation leaves no trace of which one it was; a raised one does
Ok(op) == [op |-> "", result |-> "ok"]
Raised(op, exc) == [op |-> op, result |-> exc]

----------------------------------------------------------------------------
(* Row attributes *)

role_tenant_id(r) == r[1]
role_name(r) == r[2]
permission_tenant_id(p) == p[1]
permission_codename(p) == p[2]
membership_user_id(m) == m[1]
membership_tenant_id(m) == m[2]

MembershipExists(m) == m \in DOMAIN memberships
RoleExists(r) == r \in DOMAIN roles

----------------------------------------------------------------------------
(* Store operations *)

\* TenantMembership.objects.create(user, tenant, is_active): unique_together
CreateMembership(u, t, active) ==
    /\ IF MembershipExists(<<u, t>>)
       THEN /\ outcome' = Raised("create_membership", "IntegrityError")
            /\ UNCHANGED memberships
       ELSE /\ memberships' = [m \in DOMAIN memberships \cup {<<u, t>>} |->
                                 IF m = <<u, t>>
                                 THEN [is_active |-> active, roles |-> {}]
                                 ELSE memberships[m]]
            /\ outcome' = Ok("create_membership")
    /\ UNCHANGED <<tenant_is_active, roles, permissions, SUPERUSER_BYPASS, tu, first, extVars>>

\* Tenant.add_member(user, roles, is_active)
add_member(t, u, rs, active) ==
    IF MembershipExists(<<u, t>>)
    THEN /\ outcome' = Raised("add_member", "ValidationError")
         /\ UNCHANGED memberships
    ELSE /\ memberships' = [m \in DOMAIN memberships \cup {<<u, t>>} |->
                              IF m = <<u, t>>
                              THEN [is_active |-> active, roles |-> rs]
                              ELSE memberships[m]]
         /\ outcome' = Ok("add_member")

AddMember(t, u, rs, active) ==
    /\ rs \subseteq DOMAIN roles
    /\ add_member(t, u, rs, active)
    /\ UNCHANGED <<tenant_is_active, roles, permissions, SUPERUSER_BYPASS, tu, first, extVars>>

\* TenantMembership.add_role(role)
add_role(m, r) ==
    IF role_tenant_id(r) # membership_tenant_id(m)
    THEN /\ outcome' = Raised("add_role", "ValidationError")
         /\ UNCHANGED memberships
    ELSE /\ memberships' = [memberships EXCEPT ![m].roles = @ \cup {r}]
         /\ outcome' = Ok("add_role")

AddRole(m, r) ==
    /\ MembershipExists(m)
    /\ RoleExists(r)
    /\ add_role(m, r)
    /\ UNCHANGED <<tenant_is_active, roles, permissions, SUPERUSER_BYPASS, tu, first, extVars>>

\* TenantMembership.remove_role(role)
remove_role(m, r) ==
    /\ memberships' = [memberships EXCEPT ![m].roles = @ \ {r}]
    /\ outcome' = Ok("remove_role")

RemoveRole(m, r) ==
    /\ MembershipExists(m)
    /\ RoleExists(r)
    /\ remove_role(m, r)
    /\ UNCHANGED <<tenant_is_active, roles, permissions, SUPERUSER_BYPASS, tu, first, extVars>>

\* Role.add_permission(permission)
add_permission(r, p) ==
    IF permission_tenant_id(p) # role_tenant_id(r)
    THEN /\ outcome' = Raised("add_permission", "ValidationError")
         /\ UNCHANGED roles
    ELSE /\ roles' = [roles EXCEPT ![r].permissions = @ \cup {p}]
         /\ outcome' = Ok("add_permission")

AddPermission(r, p) ==
    /\ RoleExists(r)
    /\ p \in permissions
    /\ add_permission(r, p)
    /\ UNCHANGED <<tenant_is_active, memberships, permissions, SUPERUSER_BYPASS, tu, first, extVars>>

\* role.permissions.remove(permission): the manager of the many-to-many field
\* deletes the row of the relation if there is one
RolePermissionsRemove(r, p) ==
    /\ RoleExists(r)
    /\ p \in permissions
    /\ roles' = [roles EXCEPT ![r].permissions = @ \ {p}]
    /\ outcome' = Ok("remove_permission")
    /\ UNCHANGED <<tenant_is_active, memberships, permissions, SUPERUSER_BYPASS, tu, first, extVars>>

\* tenant.is_active = b; tenant.save()
SetTenantActive(t, b) ==
    /\ tenant_is_active[t] # b
    /\ tenant_is_active' = [tenant_is_active EXCEPT ![t] = b]
    /\ outcome' = Ok("save_tenant")
    /\ UNCHANGED <<memberships, roles, permissions, SUPERUSER_BYPASS, tu, first, extVars>>

\* membership.is_active = b; membership.save()
SetMembershipActive(m, b) ==
    /\ MembershipExists(m)
    /\ memberships[m].is_active # b
    /\ memberships' = [memberships EXCEPT ![m].is_active = b]
    /\ outcome' = Ok("save_membership")
    /\ UNCHANGED <<tenant_is_active, roles, permissions, SUPERUSER_BYPASS, tu, first, extVars>>

\* role.is_active = b; role.save()
SetRoleActive(r, b) ==
    /\ RoleExists(r)
    /\ roles[r].is_active # b
    /\ roles' = [roles EXCEPT ![r].is_active = b]
    /\ outcome' = Ok("save_role")
    /\ UNCHANGED <<tenant_is_active, memberships, permissions, SUPERUSER_BYPASS, tu, first, extVars>>

\* Role.objects.create(tenant, name): unique_together (tenant, name)
CreateRole(r) ==
    /\ ~RoleExists(r)
    /\ roles' = [x \in DOMAIN roles \cup {r} |->
                   IF x = r THEN [is_active |-> TRUE, permissions |-> {}]
                   ELSE roles[x]]
    /\ outcome' = Ok("create_role")
    /\ UNCHANGED <<tenant_is_active, memberships, permissions, SUPERUSER_BYPASS, tu, first, extVars>>

\* Permission.objects.create(tenant, codename): unique_together (tenant, codename)
CreatePermission(p) ==
    /\ p \notin permissions
    /\ permissions' = permissions \cup {p}
    /\ outcome' = Ok("create_permission")
    /\ UNCHANGED <<tenant_is_active, memberships, roles, SUPERUSER_BYPASS, tu, first, extVars>>

\* A TenantMembership object held in memory names its row by primary key. Once
\* the row is deleted no row ever has that key again (a later row for the same
\* user and tenant gets a fresh UUID), so the object is marked as no longer live.
Detached(holder, m) ==
    IF holder # None /\ Val(holder).membership_cache = Some([key |-> m, live |-> TRUE])
    THEN Some([Val(holder) EXCEPT !.membership_cache = Some([key |-> m, live |-> FALSE])])
    ELSE holder

\* membership.delete(): the rows of the roles relation go with it
DeleteMembership(m) ==
    /\ MembershipExists(m)
    /\ memberships' = [x \in DOMAIN memberships \ {m} |-> memberships[x]]
    /\ outcome' = Ok("delete_membership")
    /\ tu' = Detached(tu, m)
    /\ UNCHANGED <<tenant_is_active, roles, permissions, SUPERUSER_BYPASS, first, extVars>>

\* role.delete(): its rows in both many-to-many relations go with it
DeleteRole(r) ==
    /\ RoleExists(r)
    /\ roles' = [x \in DOMAIN roles \ {r} |-> roles[x]]
    /\ memberships' = [m \in DOMAIN memberships |->
                         [memberships[m] EXCEPT !.roles = @ \ {r}]]
    /\ outcome' = Ok("delete_role")
    /\ UNCHANGED <<tenant_is_active, permissions, SUPERUSER_BYPASS, tu, first, extVars>>

\* permission.delete(): its rows in Role.permissions go with it
DeletePermission(p) ==
    /\ p \in permissions
    /\ permissions' = permissions \ {p}
    /\ roles' = [r \in DOMAIN roles |->
                   [roles[r] EXCEPT !.permissions = @ \ {p}]]
    /\ outcome' = Ok("delete_permission")
    /\ UNCHANGED <<tenant_is_active, memberships, SUPERUSER_BYPASS, tu, first, extVars>>

----------------------------------------------------------------------------
(* Objects held in memory by a caller *)

\* a user object: a saved user, or django's AnonymousUser
UserObjects == [id : Users, is_superuser : BOOLEAN, is_authenticated : {TRUE}]
AnonymousUser == [id |-> "anonymous", is_superuser |-> FALSE, is_authenticated |-> FALSE]

\* the tenant as loaded from the store now
TenantObject(t) == [id |-> t, is_active |-> tenant_is_active[t]]
\* every tenant argument a caller can pass: None, or a tenant object whose
\* is_active attribute is whatever it was when the caller loaded it
TenantArguments == {None} \cup {Some(o) : o \in [id : Tenants, is_active : BOOLEAN]}

\* ActiveMembership without its is_active=True filter
AnyMembership(user, tenant) ==
    IF /\ tenant # None
       /\ <<user.id, Val(tenant).id>> \in DOMAIN memberships
    THEN Some([key |-> <<user.id, Val(tenant).id>>, live |-> TRUE])
    ELSE None

\* TenantMembership.objects.get(user=user, tenant=tenant, is_active=True):
\* the membership object, or None for DoesNotExist
ActiveMembership(user, tenant) ==
    IF /\ tenant # None
       /\ <<user.id, Val(tenant).id>> \in DOMAIN memberships
       /\ memberships[<<user.id, Val(tenant).id>>].is_active
    THEN Some([key |-> <<user.id, Val(tenant).id>>, live |-> TRUE])
    ELSE None

\* membership.roles.filter(is_active=True): a query on the rows as they are now
ActiveRolesOf(membership) ==
    IF membership.live /\ membership.key \in DOMAIN memberships
    THEN {r \in memberships[membership.key].roles : roles[r].is_active}
    ELSE {}

----------------------------------------------------------------------------
(* utils.py *)

Raise(exc) == [raised |-> exc]
Return(v) == [raised |-> "", value |-> v]

\* validate_tenant_context without its is_active test
validate_tenant_context_presence_only(tenant) ==
    IF tenant = None
    THEN Raise("InvalidTenantContextError")
    ELSE Return(tenant)

validate_tenant_context(tenant) ==
    IF tenant = None
    THEN Raise("InvalidTenantContextError")
    ELSE IF ~Val(tenant).is_active
         THEN Raise("InvalidTenantContextError")
         ELSE Return(tenant)

----------------------------------------------------------------------------
(* models.py: TenantMembership queries *)

\* has_permission without its is_active=True filter on the roles
membership_has_permission_any_role(membership, codename) ==
    /\ membership.live
    /\ membership.key \in DOMAIN memberships
    /\ \E r \in memberships[membership.key].roles :
          \E p \in roles[r].permissions : permission_codename(p) = codename

\* TenantMembership.has_permission
membership_has_permission(membership, codename) ==
    \E r \in ActiveRolesOf(membership) :
        \E p \in roles[r].permissions : permission_codename(p) = codename

\* TenantMembership.get_permissions: the join yields a null codename for a role
\* without permissions, which is then taken out again
membership_get_permissions(membership) ==
    LET joined == {Some(permission_codename(p)) :
                      p \in UNION {roles[r].permissions : r \in ActiveRolesOf(membership)}}
                  \cup {None : r \in {x \in ActiveRolesOf(membership) : roles[x].permissions = {}}}
    IN  {Val(c) : c \in joined \ {None}}

----------------------------------------------------------------------------
(* permissions.py: PermissionChecker *)

\* check_permission validating the tenant before it looks at the bypass
check_permission_validating_first(user, tenant, codename, membership) ==
    IF validate_tenant_context(tenant).raised # ""
    THEN FALSE
    ELSE IF SUPERUSER_BYPASS /\ user.is_superuser
         THEN TRUE
         ELSE LET found == IF membership = None
                           THEN ActiveMembership(user, tenant)
                           ELSE membership
              IN  IF found = None
                  THEN FALSE
                  ELSE membership_has_permission(Val(found), codename)

\* PermissionChecker.check_permission(user, tenant, permission_codename, membership)
check_permission(user, tenant, codename, membership) ==
    IF SUPERUSER_BYPASS /\ user.is_superuser
    THEN TRUE
    ELSE IF validate_tenant_context(tenant).raised # ""
         THEN FALSE
         ELSE LET found == IF membership = None
                           THEN ActiveMembership(user, tenant)
                           ELSE membership
              IN  IF found = None
                  THEN FALSE
                  ELSE membership_has_permission(Val(found), codename)

\* get_user_permissions giving a superuser the codenames of every tenant
get_user_permissions_of_every_tenant(user, tenant, membership) ==
    IF SUPERUSER_BYPASS /\ user.is_superuser
    THEN {permission_codename(p) : p \in permissions}
    ELSE LET found == IF membership = None
                      THEN ActiveMembership(user, tenant)
                      ELSE membership
         IN  IF found = None
             THEN {}
             ELSE membership_get_permissions(Val(found))

\* PermissionChecker.get_user_permissions(user, tenant, membership)
get_user_permissions(user, tenant, membership) ==
    IF SUPERUSER_BYPASS /\ user.is_superuser
    THEN {permission_codename(p) :
             p \in {x \in permissions : tenant # None /\ permission_tenant_id(x) = Val(tenant).id}}
    ELSE LET found == IF membership = None
                      THEN ActiveMembership(user, tenant)
                      ELSE membership
         IN  IF found = None
             THEN {}
             ELSE membership_get_permissions(Val(found))

----------------------------------------------------------------------------
(* permissions.py: TenantUser. Every method is given as the pair of the        *)
(* instance after the call and the value returned.                             *)

\* TenantUser.__init__
TenantUser(user, tenant) ==
    [user |-> user, tenant |-> tenant,
     permission_cache |-> None, membership_cache |-> None, is_member_cache |-> None]

\* TenantUser._get_membership
get_membership(self) == ActiveMembership(self.user, self.tenant)

\* TenantUser.membership (property)
membership(self) ==
    LET m == IF self.membership_cache = None
             THEN get_membership(self)
             ELSE self.membership_cache
    IN  [self |-> [self EXCEPT !.membership_cache = m], ret |-> m]

\* is_member letting a superuser pass as a member
is_member_with_bypass(self) ==
    IF SUPERUSER_BYPASS /\ self.user.is_superuser
    THEN [self |-> self, ret |-> TRUE]
    ELSE LET got == membership(self)
         IN  [self |-> [got.self EXCEPT !.is_member_cache = Some(got.ret # None)],
              ret |-> got.ret # None]

\* TenantUser.is_member
is_member(self) ==
    IF self.is_member_cache = None
    THEN LET got == membership(self)
         IN  [self |-> [got.self EXCEPT !.is_member_cache = Some(got.ret # None)],
              ret |-> got.ret # None]
    ELSE [self |-> self, ret |-> Val(self.is_member_cache)]

\* TenantUser.has_perm
has_perm(self, perm) ==
    LET got == membership(self)
    IN  [self |-> got.self,
         ret |-> check_permission(self.user, self.tenant, perm, got.ret)]

\* TenantUser.has_perms: all() over has_perm, stopping at the first False
RECURSIVE has_perms(_, _)
has_perms(self, perm_list) ==
    IF perm_list = << >>
    THEN [self |-> self, ret |-> TRUE]
    ELSE LET got == has_perm(self, Head(perm_list))
         IN  IF got.ret
             THEN has_perms(got.self, Tail(perm_list))
             ELSE [self |-> got.self, ret |-> FALSE]

\* get_all_permissions testing "if not self._permission_cache": an empty result
\* is computed again
get_all_permissions_falsy_cache(self) ==
    IF self.permission_cache = None \/ self.permission_cache = Some({})
    THEN LET got == membership(self)
             perms == get_user_permissions(self.user, self.tenant, got.ret)
         IN  [self |-> [got.self EXCEPT !.permission_cache = Some(perms)], ret |-> perms]
    ELSE [self |-> self, ret |-> Val(self.permission_cache)]

\* TenantUser.get_all_permissions
get_all_permissions(self) ==
    IF self.permission_cache = None
    THEN LET got == membership(self)
             perms == get_user_permissions(self.user, self.tenant, got.ret)
         IN  [self |-> [got.self EXCEPT !.permission_cache = Some(perms)], ret |-> perms]
    ELSE [self |-> self, ret |-> Val(self.permission_cache)]

\* TenantUser.get_roles (the list as a set: the guards only test membership in it)
get_roles(self) ==
    LET got == membership(self)
    IN  [self |-> got.self,
         ret |-> IF got.ret = None THEN {} ELSE ActiveRolesOf(Val(got.ret))]

----------------------------------------------------------------------------
(* decorators.py, drf/permissions.py, backends.py: the guards. A request is    *)
(* [user, tenant, tenant_user]: request.user, and what the middleware left in  *)
(* request.tenant and request.tenant_user (None when absent). A view guard     *)
(* ends in "view" (the wrapped view runs), "redirect_to_login" or              *)
(* "PermissionDenied"; an API guard returns a boolean.                         *)

Request(user, tenant, tenant_user) ==
    [user |-> user, tenant |-> tenant, tenant_user |-> tenant_user]

\* getattr(request, "tenant_user", None), or TenantUser(user=request.user, tenant=tenant)
TenantUserOf(request) ==
    IF request.tenant_user = None
    THEN TenantUser(request.user, request.tenant)
    ELSE Val(request.tenant_user)

\* any(tenant_user.has_perm(p) for p in perm_list)
RECURSIVE any_has_perm(_, _)
any_has_perm(self, perm_list) ==
    IF perm_list = << >>
    THEN FALSE
    ELSE LET got == has_perm(self, Head(perm_list))
         IN  got.ret \/ any_has_perm(got.self, Tail(perm_list))

\* {role.name for role in tenant_user.get_roles()}
user_roles(self) == {role_name(r) : r \in get_roles(self).ret}

SeqRange(q) == {q[i] : i \in DOMAIN q}

\* what a guard does when a check fails
Denied(raise_exception) ==
    IF raise_exception THEN "PermissionDenied" ELSE "redirect_to_login"

\* tenant_login_required looking at the superuser bypass before the tenant
tenant_login_required_bypass_first(request) ==
    IF ~request.user.is_authenticated
    THEN "redirect_to_login"
    ELSE IF SUPERUSER_BYPASS /\ request.user.is_superuser
    THEN "view"
    ELSE IF request.tenant = None
    THEN "PermissionDenied"
    ELSE IF ~is_member(TenantUserOf(request)).ret
    THEN "PermissionDenied"
    ELSE "view"

tenant_login_required(request) ==
    IF ~request.user.is_authenticated
    THEN "redirect_to_login"
    ELSE IF request.tenant = None
    THEN "PermissionDenied"
    ELSE IF SUPERUSER_BYPASS /\ request.user.is_superuser
    THEN "view"
    ELSE IF ~is_member(TenantUserOf(request)).ret
    THEN "PermissionDenied"
    ELSE "view"

tenant_permission_required(perm_list, raise_exception, require_all, request) ==
    IF ~request.user.is_authenticated
    THEN "redirect_to_login"
    ELSE IF request.tenant = None
    THEN Denied(raise_exception)
    ELSE IF SUPERUSER_BYPASS /\ request.user.is_superuser
    THEN "view"
    ELSE LET checked == is_member(TenantUserOf(request))
         IN  IF ~checked.ret
             THEN Denied(raise_exception)
             ELSE IF IF require_all
                     THEN has_perms(checked.self, perm_list).ret
                     ELSE any_has_perm(checked.self, perm_list)
                  THEN "view"
                  ELSE Denied(raise_exception)

tenant_role_required(role_names, raise_exception, require_all, request) ==
    IF ~request.user.is_authenticated
    THEN "redirect_to_login"
    ELSE IF request.tenant = None
    THEN Denied(raise_exception)
    ELSE IF SUPERUSER_BYPASS /\ request.user.is_superuser
    THEN "view"
    ELSE LET checked == is_member(TenantUserOf(request))
         IN  IF ~checked.ret
             THEN Denied(raise_exception)
             ELSE IF IF require_all
                     THEN \A n \in SeqRange(role_names) : n \in user_roles(checked.self)
                     ELSE \E n \in SeqRange(role_names) : n \in user_roles(checked.self)
                  THEN "view"
                  ELSE Denied(raise_exception)

\* IsTenantMember.has_permission
IsTenantMember(request) ==
    IF ~request.user.is_authenticated
    THEN FALSE
    ELSE IF request.tenant = None
    THEN FALSE
    ELSE IF request.user.is_superuser
    THEN TRUE
    ELSE is_member(TenantUserOf(request)).ret

\* TenantPermission.has_permission, perms being get_required_permissions(request, view)
TenantPermission(perms, require_all, request) ==
    IF ~request.user.is_authenticated
    THEN FALSE
    ELSE IF request.tenant = None
    THEN FALSE
    ELSE IF request.user.is_superuser
    THEN TRUE
    ELSE LET checked == is_member(TenantUserOf(request))
         IN  IF ~checked.ret
             THEN FALSE
             ELSE IF perms = << >>
             THEN TRUE
             ELSE IF require_all
                  THEN has_perms(checked.self, perms).ret
                  ELSE any_has_perm(checked.self, perms)

admin_role_name == "Admin"

\* TenantAdminPermission.has_permission
TenantAdminPermission(request) ==
    IF ~request.user.is_authenticated
    THEN FALSE
    ELSE IF request.tenant = None
    THEN FALSE
    ELSE IF request.user.is_superuser
    THEN TRUE
    ELSE admin_role_name \in user_roles(TenantUserOf(request))

\* TenantAwareAuthBackend._verify_tenant_membership(user, tenant), tenant not None
verify_tenant_membership(user, tenant) ==
    IF user.is_superuser
    THEN TRUE
    ELSE IF ActiveMembership(user, tenant) = None
    THEN FALSE
    ELSE IF ~Val(tenant).is_active
    THEN FALSE
    ELSE TRUE

----------------------------------------------------------------------------
(* One request's use of its TenantUser instance *)

NothingSeen == [member |-> None, perms |-> None]

\* the first result of evaluating the membership on this instance
NoteMember(present) ==
    IF first.member = None THEN [first EXCEPT !.member = Some(present)] ELSE first

\* tenant_user = TenantUser(user=request.user, tenant=tenant)
Construct(user, t) ==
    /\ tu' = Some(TenantUser(user, Some(TenantObject(t))))
    /\ first' = NothingSeen
    /\ UNCHANGED <<storeVars, SUPERUSER_BYPASS, outcome, extVars>>

CallMembership ==
    /\ tu # None
    /\ LET got == membership(Val(tu))
       IN  /\ tu' = Some(got.self)
           /\ first' = NoteMember(got.ret # None)
    /\ UNCHANGED <<storeVars, SUPERUSER_BYPASS, outcome, extVars>>

CallIsMember ==
    /\ tu # None
    /\ LET got == is_member(Val(tu))
       IN  /\ tu' = Some(got.self)
           /\ first' = NoteMember(got.ret)
    /\ UNCHANGED <<storeVars, SUPERUSER_BYPASS, outcome, extVars>>

CallHasPerm(perm) ==
    /\ tu # None
    /\ LET got == has_perm(Val(tu), perm)
       IN  /\ tu' = Some(got.self)
           /\ first' = NoteMember(got.self.membership_cache # None)
    /\ UNCHANGED <<storeVars, SUPERUSER_BYPASS, outcome, extVars>>

CallHasPerms(perm_list) ==
    /\ tu # None
    /\ LET got == has_perms(Val(tu), perm_list)
       IN  /\ tu' = Some(got.self)
           /\ first' = IF perm_list = << >>
                       THEN first
                       ELSE NoteMember(got.self.membership_cache # None)
    /\ UNCHANGED <<storeVars, SUPERUSER_BYPASS, outcome, extVars>>

CallGetAllPermissions ==
    /\ tu # None
    /\ LET got == get_all_permissions(Val(tu))
           seen == IF Val(tu).permission_cache = None
                   THEN NoteMember(got.self.membership_cache # None)
                   ELSE first
       IN  /\ tu' = Some(got.self)
           /\ first' = IF first.perms = None
                       THEN [seen EXCEPT !.perms = Some(got.ret)]
                       ELSE seen
    /\ UNCHANGED <<storeVars, SUPERUSER_BYPASS, outcome, extVars>>

CallGetRoles ==
    /\ tu # None
    /\ LET got == get_roles(Val(tu))
       IN  /\ tu' = Some(got.self)
           /\ first' = NoteMember(got.self.membership_cache # None)
    /\ UNCHANGED <<storeVars, SUPERUSER_BYPASS, outcome, extVars>>

----------------------------------------------------------------------------
(* models.py: TenantMembership creation by concurrent callers. Here the table  *)
(* is a set of rows named by primary key, so that two rows of one user and     *)
(* tenant can be told apart, and a call is taken statement by statement.       *)

\* the calls that can be in progress at once, and the rows the table can hold
MaxCalls == 2
MaxRows == 3
CallIds == 1..MaxCalls

Idle == [pc |-> "idle"]
Done(result) == [pc |-> "done", result |-> result]

\* the rows of one user and tenant
RowsOf(user, tenant) == {row \in table : row.user = user /\ row.tenant = tenant}

\* a table without the unique constraint: no INSERT is refused
UniqueViolationNever(user, tenant) == FALSE

\* Meta.unique_together = [["user", "tenant"]]: the INSERT of a second row of a
\* user and tenant is refused with IntegrityError
UniqueViolation(user, tenant) == RowsOf(user, tenant) # {}

\* INSERT INTO tenant_authx_membership: the row gets a primary key of its own
Insert(user, tenant, active) ==
    table \cup {[pk |-> Cardinality(table) + 1, user |-> user, tenant |-> tenant,
                 is_active |-> active, roles |-> {}]}

\* TenantMembership.objects.create(user, tenant, is_active): one INSERT
ObjectsCreate(c, u, t, active) ==
    /\ calls[c] = Idle
    /\ Cardinality(table) < MaxRows
    /\ IF UniqueViolation(u, t)
       THEN /\ calls' = [calls EXCEPT ![c] = Done("IntegrityError")]
            /\ UNCHANGED table
       ELSE /\ table' = Insert(u, t, active)
            /\ calls' = [calls EXCEPT ![c] = Done("ok")]
    /\ UNCHANGED notTableVars

\* Tenant.add_member, first statement of get_or_create: the SELECT. A row found
\* means created is False and ValidationError is raised.
AddMemberGet(c, u, t, rs, active) ==
    /\ calls[c] = Idle
    /\ calls' = [calls EXCEPT ![c] =
                   IF RowsOf(u, t) # {}
                   THEN Done("ValidationError")
                   ELSE [pc |-> "create", user |-> u, tenant |-> t,
                         roles |-> rs, is_active |-> active]]
    /\ UNCHANGED <<table, notTableVars>>

\* Tenant.add_member, second statement of get_or_create: the INSERT. Refused, the
\* row that another caller inserted meanwhile is fetched, created is False and
\* ValidationError is raised.
AddMemberCreate(c) ==
    /\ calls[c].pc = "create"
    /\ Cardinality(table) < MaxRows
    /\ LET call == calls[c]
       IN  IF UniqueViolation(call.user, call.tenant)
           THEN /\ calls' = [calls EXCEPT ![c] = Done("ValidationError")]
                /\ UNCHANGED table
           ELSE /\ table' = Insert(call.user, call.tenant, call.is_active)
                /\ calls' = [calls EXCEPT ![c] =
                               IF call.roles = {}
                               THEN Done("ok")
                               ELSE [pc |-> "set_roles", pk |-> Cardinality(table) + 1,
                                     roles |-> call.roles]]
    /\ UNCHANGED notTableVars

\* Tenant.add_member: if roles: membership.roles.set(roles)
AddMemberSetRoles(c) ==
    /\ calls[c].pc = "set_roles"
    /\ table' = {IF row.pk = calls[c].pk
                 THEN [row EXCEPT !.roles = calls[c].roles]
                 ELSE row : row \in table}
    /\ calls' = [calls EXCEPT ![c] = Done("ok")]
    /\ UNCHANGED notTableVars

\* the caller has its membership or its exception, and may call again
CallReturns(c) ==
    /\ calls[c].pc = "done"
    /\ calls' = [calls EXCEPT ![c] = Idle]
    /\ UNCHANGED <<table, notTableVars>>

TableInit ==
    /\ table = {}
    /\ calls = [c \in CallIds |-> Idle]

----------------------------------------------------------------------------
(* Text. A string is the sequence of its characters, so that its case, its     *)
(* prefixes and its parts are what the code makes of them.                     *)

\* str.lower() on one character: the capitals the requests and rows here use
LowerChar(ch) ==
    CASE ch = "A" -> "a"
      [] ch = "B" -> "b"
      [] OTHER -> ch

\* str.lower()
lower(s) == [i \in DOMAIN s |-> LowerChar(s[i])]

Positions(s, ch) == {i \in DOMAIN s : s[i] = ch}
Least(S) == CHOOSE x \in S : \A y \in S : x <= y

\* s.split(ch)[0]
FirstPart(s, ch) ==
    IF Positions(s, ch) = {} THEN s ELSE SubSeq(s, 1, Least(Positions(s, ch)) - 1)

\* s.endswith(suffix)
endswith(s, suffix) ==
    /\ Len(s) >= Len(suffix)
    /\ SubSeq(s, Len(s) - Len(suffix) + 1, Len(s)) = suffix

\* re.compile(pattern).match(s) for a pattern "^literal": s starts with the literal
startswith(s, prefix) ==
    /\ Len(s) >= Len(prefix)
    /\ SubSeq(s, 1, Len(prefix)) = prefix

\* the characters of [\w-]
NotWordChars == {"/", ".", ":"}

----------------------------------------------------------------------------
(* models.py: the Tenant table with its slug and domain columns.               *)
(* tenants maps the primary key of every tenant row to [slug, domain,          *)
(* is_active]; domain is None for NULL.                                        *)

\* the chain handles one request at a time, and the table is written between
\* two requests
BetweenRequests == trace.ended = ""

\* the text comparison of the database: case-insensitive under MySQL's default
\* collation, exact under SQLite and PostgreSQL
SameText(a, b) ==
    IF settings.DATABASE = "mysql" THEN lower(a) = lower(b) ELSE a = b

\* slug and domain are unique=True: the rows the new values collide with
UniqueCollisions(pk, slug, domain) ==
    {other \in DOMAIN tenants \ {pk} :
        \/ SameText(tenants[other].slug, slug)
        \/ /\ domain # None
           /\ tenants[other].domain # None
           /\ SameText(Val(tenants[other].domain), Val(domain))}

\* Tenant.clean: slug and domain in lowercase
clean(slug, domain) ==
    [slug |-> IF slug # << >> THEN lower(slug) ELSE slug,
     domain |-> IF domain # None /\ Val(domain) # << >>
                THEN Some(lower(Val(domain)))
                ELSE domain]

\* the row written by INSERT or UPDATE
WriteTenant(pk, slug, domain, active) ==
    [t \in DOMAIN tenants \cup {pk} |->
        IF t = pk
        THEN [slug |-> slug, domain |-> domain, is_active |-> active]
        ELSE tenants[t]]

\* Tenant.objects.create(slug, domain, is_active): Model.save() as inherited,
\* which does not call clean()
TenantCreate(pk, slug, domain, active) ==
    /\ BetweenRequests
    /\ pk \notin DOMAIN tenants
    /\ IF UniqueCollisions(pk, slug, domain) # {}
       THEN /\ outcome' = Raised("create_tenant", "IntegrityError")
            /\ UNCHANGED tenants
       ELSE /\ tenants' = WriteTenant(pk, slug, domain, active)
            /\ outcome' = Ok("create_tenant")
    /\ UNCHANGED <<storeVars, SUPERUSER_BYPASS, tu, first, tableVars, audited, settings, http_request, trace>>

\* tenant.slug = slug; tenant.domain = domain; tenant.is_active = active; tenant.save()
TenantSave(pk, slug, domain, active) ==
    /\ BetweenRequests
    /\ pk \in DOMAIN tenants
    /\ IF UniqueCollisions(pk, slug, domain) # {}
       THEN /\ outcome' = Raised("save_tenant", "IntegrityError")
            /\ UNCHANGED tenants
       ELSE /\ tenants' = WriteTenant(pk, slug, domain, active)
            /\ outcome' = Ok("save_tenant")
    /\ UNCHANGED <<storeVars, SUPERUSER_BYPASS, tu, first, tableVars, audited, settings, http_request, trace>>

\* tenant.full_clean(); tenant.save(), as a ModelForm or the admin does it:
\* clean() runs, then validate_unique() on the cleaned values
TenantFullCleanSave(pk, slug, domain, active) ==
    /\ BetweenRequests
    /\ LET cleaned == clean(slug, domain)
       IN  IF UniqueCollisions(pk, cleaned.slug, cleaned.domain) # {}
           THEN /\ outcome' = Raised("full_clean", "ValidationError")
                /\ UNCHANGED tenants
           ELSE /\ tenants' = WriteTenant(pk, cleaned.slug, cleaned.domain, active)
                /\ outcome' = Ok("save_tenant")
    /\ UNCHANGED <<storeVars, SUPERUSER_BYPASS, tu, first, tableVars, audited, settings, http_request, trace>>

\* tenant.delete()
TenantDelete(pk) ==
    /\ BetweenRequests
    /\ pk \in DOMAIN tenants
    /\ tenants' = [t \in DOMAIN tenants \ {pk} |-> tenants[t]]
    /\ outcome' = Ok("delete_tenant")
    /\ UNCHANGED <<storeVars, SUPERUSER_BYPASS, tu, first, tableVars, audited, settings, http_request, trace>>

\* the Tenant object loaded from row pk
TenantRow(pk) ==
    [id |-> pk, slug |-> tenants[pk].slug, domain |-> tenants[pk].domain,
     is_active |-> tenants[pk].is_active]

----------------------------------------------------------------------------
(* resolvers.py. A resolver returns the tenant or raises TenantNotFoundError   *)
(* (which has an identifier attribute) or TenantInactiveError (which has a     *)
(* tenant attribute and no identifier).                                        *)

TenantNotFoundError(identifier) ==
    [raised |-> "TenantNotFoundError", identifier |-> identifier]
TenantInactiveError(tenant) ==
    [raised |-> "TenantInactiveError", tenant |-> tenant]

\* the tenant found by Tenant.objects.get(...), then the is_active test
ActiveOrRaise(found, identifier) ==
    IF found = {}
    THEN TenantNotFoundError(Some(identifier))
    ELSE LET pk == CHOOSE t \in found : TRUE
         IN  IF ~tenants[pk].is_active
             THEN TenantInactiveError(pk)
             ELSE Return(TenantRow(pk))

\* BaseTenantResolver.get_tenant_by_slug
get_tenant_by_slug(slug) ==
    ActiveOrRaise({t \in DOMAIN tenants : SameText(tenants[t].slug, lower(slug))}, slug)

\* BaseTenantResolver.get_tenant_by_domain
get_tenant_by_domain(domain) ==
    ActiveOrRaise({t \in DOMAIN tenants :
                      /\ tenants[t].domain # None
                      /\ SameText(Val(tenants[t].domain), lower(domain))}, domain)

\* host without its port
HostName(req) == FirstPart(req.host, ":")

\* DomainTenantResolver.resolve
DomainTenantResolver(req) == get_tenant_by_domain(HostName(req))

\* _extract_subdomain without its split of a nested subdomain
extract_subdomain_whole_prefix(base_domain, host) ==
    LET base == lower(base_domain)
        h == lower(host)
    IN  IF ~endswith(h, <<".">> \o base)
        THEN None
        ELSE LET subdomain == SubSeq(h, 1, Len(h) - (Len(base) + 1))
             IN  IF subdomain # << >> THEN Some(subdomain) ELSE None

\* SubdomainTenantResolver._extract_subdomain of a resolver whose
\* self.base_domain is base_domain
extract_subdomain_under(base_domain, host) ==
    LET base == lower(base_domain)
        h == lower(host)
    IN  IF ~endswith(h, <<".">> \o base)
        THEN None
        ELSE LET subdomain == FirstPart(SubSeq(h, 1, Len(h) - (Len(base) + 1)), ".")
             IN  IF subdomain # << >> THEN Some(subdomain) ELSE None

\* SubdomainTenantResolver._extract_subdomain, base_domain read from
\* TENANT_AUTHX_BASE_DOMAIN by __init__
extract_subdomain(host) == extract_subdomain_under(settings.BASE_DOMAIN, host)

\* SubdomainTenantResolver.resolve
SubdomainTenantResolver(req) ==
    LET subdomain == extract_subdomain(HostName(req))
    IN  IF subdomain = None
        THEN TenantNotFoundError(Some(HostName(req)))
        ELSE get_tenant_by_slug(Val(subdomain))

\* TENANT_PATH_PATTERN ^/(?P<tenant_slug>[\w-]+)/ matched against the path: the
\* tenant_slug group, or None when the pattern does not match
path_pattern_match(path) ==
    LET ends == {i \in 3..Len(path) :
                    /\ path[1] = "/"
                    /\ path[i] = "/"
                    /\ \A j \in 2..(i - 1) : path[j] \notin NotWordChars}
    IN  IF ends = {} THEN None ELSE Some(SubSeq(path, 2, Least(ends) - 1))

\* PathTenantResolver.resolve
PathTenantResolver(req) ==
    LET match == path_pattern_match(req.path)
    IN  IF match = None
        THEN TenantNotFoundError(Some(req.path))
        ELSE get_tenant_by_slug(Val(match))

\* HeaderTenantResolver.resolve: request.META.get(header_key)
HeaderTenantResolver(req) ==
    IF req.header = None \/ req.header = Some(<< >>)
    THEN TenantNotFoundError(None)
    ELSE get_tenant_by_slug(Val(req.header))

\* get_resolver().resolve(request)
resolve(req) ==
    CASE settings.TENANT_RESOLUTION_STRATEGY = "domain" -> DomainTenantResolver(req)
      [] settings.TENANT_RESOLUTION_STRATEGY = "subdomain" -> SubdomainTenantResolver(req)
      [] settings.TENANT_RESOLUTION_STRATEGY = "path" -> PathTenantResolver(req)
      [] settings.TENANT_RESOLUTION_STRATEGY = "header" -> HeaderTenantResolver(req)

----------------------------------------------------------------------------
(* utils.py: the audit sink *)

\* audit_log(event, user, tenant, permission, success, extra): the records it
\* hands to the audit logger, none when auditing is disabled. user is
\* request.user or None, tenant a tenant or None.
audit_log(event, user, tenant, permission, success, identifier) ==
    IF ~settings.AUDIT_ENABLED
    THEN << >>
    ELSE <<[event |-> event,
            user |-> IF user = None THEN None ELSE Some(Val(user).id),
            tenant |-> IF tenant = None THEN None ELSE Some(Val(tenant).id),
            permission |-> permission,
            success |-> success,
            identifier |-> identifier]>>

\* what leaves audit_log when a handler or filter on the audit logger raises:
\* audit_log has no try/except around logger.info / logger.warning
HandlerError == "HandlerError"

\* the records went to a logger whose handler raises: logging's own handlers
\* ("stream") keep an emit error to themselves, a handler or filter of the
\* project that raises ("raising") lets it out of logger.info
Propagated(records) ==
    records # << >> /\ settings.AUDIT_HANDLER = "raising"

\* the records handed to the logger before the caller was interrupted
Emitted(records) ==
    IF Propagated(records) THEN <<Head(records)>> ELSE records

----------------------------------------------------------------------------
(* handlers.py and middleware.py. One exchange is the request object as the    *)
(* middleware chain leaves it, together with what happened on the way: how     *)
(* often the resolver and the view were invoked, the audit records written,    *)
(* what the resolver gave and how the exchange ended ("view_response",          *)
(* "handler_response" or the exception that left the chain).                   *)

HandlerRaises(exc) == [kind |-> "raise", exc |-> exc, value |-> None]
HandlerResponds == [kind |-> "response", exc |-> "", value |-> None]
HandlerReturns(v) == [kind |-> "value", exc |-> "", value |-> v]

\* handlers.default_tenant_not_found: it formats exception.identifier, an
\* attribute only TenantNotFoundError has
default_tenant_not_found(exception) ==
    IF "identifier" \in DOMAIN exception
    THEN HandlerRaises("Http404")
    ELSE HandlerRaises("AttributeError")

\* handlers.return_none_on_tenant_not_found
return_none_on_tenant_not_found(exception) == HandlerReturns(None)

\* the tenant a project's own handler falls back to
FallbackTenant ==
    [id |-> "public", slug |-> <<"p">>, domain |-> None, is_active |-> TRUE]

\* a project's own handler that lets the inactive tenant through: it returns
\* exception.tenant, which TenantInactiveError carries, and None otherwise
return_inactive_tenant(exception) ==
    IF "tenant" \in DOMAIN exception
    THEN HandlerReturns(Some(TenantRow(exception.tenant)))
    ELSE HandlerReturns(None)

HandlerPaths ==
    {"tenant_authx.handlers.default_tenant_not_found", "raise", "none",
     "tenant_authx.handlers.return_none_on_tenant_not_found",
     "project.handlers.respond", "project.handlers.fallback_tenant",
     "project.handlers.inactive_tenant"}

\* TenantResolutionMiddleware._get_handler() applied to (request, e), for a
\* handler path other than "raise"
CallHandler(handler_path, exception) ==
    CASE handler_path = "none" -> HandlerReturns(None)
      [] handler_path = "tenant_authx.handlers.default_tenant_not_found" ->
            default_tenant_not_found(exception)
      [] handler_path = "tenant_authx.handlers.return_none_on_tenant_not_found" ->
            return_none_on_tenant_not_found(exception)
      [] handler_path = "project.handlers.respond" -> HandlerResponds
      [] handler_path = "project.handlers.fallback_tenant" ->
            HandlerReturns(Some(FallbackTenant))
      [] handler_path = "project.handlers.inactive_tenant" ->
            return_inactive_tenant(exception)

\* _is_exempt never matching
is_exempt_never(path) == FALSE

\* TenantResolutionMiddleware._is_exempt: the patterns are of the form ^/prefix/
is_exempt(path) ==
    \E i \in DOMAIN settings.TENANT_EXEMPT_URLS :
        startswith(path, settings.TENANT_EXEMPT_URLS[i])

\* the view (or the rest of the chain) that get_response ends in
View(x) == [x EXCEPT !.views = @ + 1, !.ended = "view_response"]

\* TenantUserMiddleware.__call__ without its "request.tenant_user = None"
TenantUserMiddlewareKeepingSlot(x) ==
    LET user == x.request.user
        tenant == x.request.tenant
    IN  View([x EXCEPT !.request.tenant_user =
                 IF user # None /\ tenant # None /\ Val(user).is_authenticated
                 THEN Some(TenantUser(Val(user), tenant))
                 ELSE @])

\* TenantUserMiddleware.__call__
TenantUserMiddleware(x) ==
    LET user == x.request.user
        tenant == x.request.tenant
    IN  View([x EXCEPT !.request.tenant_user =
                 IF user # None /\ tenant # None /\ Val(user).is_authenticated
                 THEN Some(TenantUser(Val(user), tenant))
                 ELSE None])

\* the dispatch on a failed resolution calling the handler even for "raise"
OnResolutionFailedAlwaysCalling(x, e) ==
    LET handled == CallHandler(IF settings.TENANT_NOT_FOUND_HANDLER = "raise"
                               THEN "none"
                               ELSE settings.TENANT_NOT_FOUND_HANDLER, e)
    IN  CASE handled.kind = "raise" -> [x EXCEPT !.ended = handled.exc]
          [] handled.kind = "response" -> [x EXCEPT !.ended = "handler_response"]
          [] handled.kind = "value" ->
                TenantUserMiddleware([x EXCEPT !.request.tenant = handled.value])

\* TenantResolutionMiddleware.__call__, the except branch after its audit_log:
\* the configured handler decides
OnResolutionFailed(x, e) ==
    IF settings.TENANT_NOT_FOUND_HANDLER = "raise"
    THEN [x EXCEPT !.ended = e.raised]
    ELSE LET handled == CallHandler(settings.TENANT_NOT_FOUND_HANDLER, e)
         IN  CASE handled.kind = "raise" -> [x EXCEPT !.ended = handled.exc]
               [] handled.kind = "response" -> [x EXCEPT !.ended = "handler_response"]
               [] handled.kind = "value" ->
                     TenantUserMiddleware([x EXCEPT !.request.tenant = handled.value])

\* TenantResolutionMiddleware.__call__, with TenantUserMiddleware next in the chain
TenantResolutionMiddleware(x) ==
    LET cleared == [x EXCEPT !.request.tenant = None]
    IN  IF is_exempt(cleared.request.path)
        THEN TenantUserMiddleware(cleared)
        ELSE LET result == resolve(cleared.request)
                 called == [cleared EXCEPT !.resolver_calls = @ + 1,
                                           !.resolved = Some(result)]
                 records == IF result.raised = ""
                            THEN audit_log("tenant_resolved", called.request.user,
                                           Some(result.value), None, TRUE, None)
                            ELSE audit_log("tenant_resolution_failed",
                                           called.request.user, None, None, FALSE,
                                           IF "identifier" \in DOMAIN result
                                           THEN result.identifier
                                           ELSE None)
                 logged == [called EXCEPT !.audit = @ \o records,
                                          !.request.tenant =
                                              IF result.raised = ""
                                              THEN Some(result.value)
                                              ELSE @]
             IN  IF Propagated(records)
                 THEN [logged EXCEPT !.ended = HandlerError]
                 ELSE IF result.raised = ""
                 THEN TenantUserMiddleware(logged)
                 ELSE OnResolutionFailed(logged, result)

\* a request object before any middleware has seen it
NewRequest ==
    [host |-> << >>, path |-> << >>, header |-> None, user |-> None,
     tenant |-> None, tenant_user |-> None]

\* no request is on its way
NoExchange ==
    [resolver_calls |-> 0, views |-> 0, audit |-> << >>,
     resolved |-> None, arrived_with |-> None, ended |-> ""]

\* one request through the chain. The request object may be one that served an
\* earlier request: what the chain does not set is as that request left it.
HandleRequest(host, path, header, user) ==
    /\ BetweenRequests
    /\ LET incoming == [http_request EXCEPT !.host = host, !.path = path,
                                       !.header = header, !.user = user]
           x == TenantResolutionMiddleware(
                   [request |-> incoming, resolver_calls |-> 0, views |-> 0,
                    audit |-> << >>, resolved |-> None, ended |-> ""])
       IN  /\ http_request' = x.request
           /\ trace' = [resolver_calls |-> x.resolver_calls,
                        views |-> x.views, audit |-> x.audit,
                        resolved |-> x.resolved,
                        arrived_with |-> http_request.tenant_user,
                        ended |-> x.ended]
    /\ UNCHANGED <<storeVars, SUPERUSER_BYPASS, outcome, tu, first, tableVars, audited, tenants, settings>>

\* the response or the exception has left the chain. The request object is
\* dropped, or kept to serve a later request with the slots as they are.
ExchangeEnds(reused) ==
    /\ ~BetweenRequests
    /\ trace' = NoExchange
    /\ http_request' = IF reused
                       THEN [NewRequest EXCEPT !.tenant = http_request.tenant,
                                               !.tenant_user = http_request.tenant_user]
                       ELSE NewRequest
    /\ UNCHANGED <<storeVars, SUPERUSER_BYPASS, outcome, tu, first, tableVars, audited, tenants, settings>>

\* settings as conf.py gives them when the project sets none
DefaultSettings ==
    [TENANT_RESOLUTION_STRATEGY |-> "domain",
     TENANT_NOT_FOUND_HANDLER |-> "tenant_authx.handlers.default_tenant_not_found",
     TENANT_EXEMPT_URLS |-> << >>,
     BASE_DOMAIN |-> <<"B", ".", "i", "o">>,
     AUDIT_ENABLED |-> TRUE,
     AUDIT_HANDLER |-> "stream",
     DATABASE |-> "sqlite"]

WebInit ==
    /\ tenants = << >>
    /\ settings = DefaultSettings
    /\ http_request = NewRequest
    /\ trace = NoExchange

----------------------------------------------------------------------------
(* The audit events of the permission evaluations and of the guards. A log is *)
(* [checks, audit]: the single permission checks an entry point made, each    *)
(* [codename, outcome] as check_permission returned it, and the records the   *)
(* entry point handed to audit_log on the way.                                *)

NoLog == [checks |-> << >>, audit |-> << >>]

Check(codename, result) == [codename |-> codename, outcome |-> result]

Both(a, b) == [checks |-> a.checks \o b.checks, audit |-> a.audit \o b.audit]

\* PermissionChecker.check_permission: one check, and no call of audit_log
check_permission_log(user, tenant, codename, prefetched) ==
    [checks |-> <<Check(codename, check_permission(user, tenant, codename, prefetched))>>,
     audit |-> << >>]

\* TenantUser.has_perm: the check, then audit_log("permission_check", ...)
has_perm_log(self, perm) ==
    LET result == has_perm(self, perm).ret
    IN  [checks |-> <<Check(perm, result)>>,
         audit |-> audit_log("permission_check", Some(self.user), self.tenant,
                             Some(perm), result, None)]

\* TenantUser.has_perms
RECURSIVE has_perms_log(_, _)
has_perms_log(self, perm_list) ==
    IF perm_list = << >>
    THEN NoLog
    ELSE LET got == has_perm(self, Head(perm_list))
         IN  IF got.ret
             THEN Both(has_perm_log(self, Head(perm_list)),
                       has_perms_log(got.self, Tail(perm_list)))
             ELSE has_perm_log(self, Head(perm_list))

\* any(tenant_user.has_perm(p) for p in perm_list)
RECURSIVE any_has_perm_log(_, _)
any_has_perm_log(self, perm_list) ==
    IF perm_list = << >>
    THEN NoLog
    ELSE LET got == has_perm(self, Head(perm_list))
         IN  IF got.ret
             THEN has_perm_log(self, Head(perm_list))
             ELSE Both(has_perm_log(self, Head(perm_list)),
                       any_has_perm_log(got.self, Tail(perm_list)))

\* PermissionChecker.has_any_permission
RECURSIVE has_any_permission(_, _, _, _)
has_any_permission(user, tenant, perms, prefetched) ==
    IF perms = << >>
    THEN FALSE
    ELSE \/ check_permission(user, tenant, Head(perms), prefetched)
         \/ has_any_permission(user, tenant, Tail(perms), prefetched)

RECURSIVE has_any_permission_log(_, _, _, _)
has_any_permission_log(user, tenant, perms, prefetched) ==
    IF perms = << >>
    THEN NoLog
    ELSE IF check_permission(user, tenant, Head(perms), prefetched)
    THEN check_permission_log(user, tenant, Head(perms), prefetched)
    ELSE Both(check_permission_log(user, tenant, Head(perms), prefetched),
              has_any_permission_log(user, tenant, Tail(perms), prefetched))

\* PermissionChecker.has_all_permissions
RECURSIVE has_all_permissions(_, _, _, _)
has_all_permissions(user, tenant, perms, prefetched) ==
    IF perms = << >>
    THEN TRUE
    ELSE /\ check_permission(user, tenant, Head(perms), prefetched)
         /\ has_all_permissions(user, tenant, Tail(perms), prefetched)

RECURSIVE has_all_permissions_log(_, _, _, _)
has_all_permissions_log(user, tenant, perms, prefetched) ==
    IF perms = << >>
    THEN NoLog
    ELSE IF check_permission(user, tenant, Head(perms), prefetched)
    THEN Both(check_permission_log(user, tenant, Head(perms), prefetched),
              has_all_permissions_log(user, tenant, Tail(perms), prefetched))
    ELSE check_permission_log(user, tenant, Head(perms), prefetched)

\* audit_log(event="access_denied" or "api_permission_denied", user=request.user, ...)
denied_log(event, request, tenant, permission) ==
    audit_log(event, Some(request.user), tenant, permission, FALSE, None)

\* the audit records of tenant_login_required
tenant_login_required_audit(request) ==
    IF ~request.user.is_authenticated
    THEN << >>
    ELSE IF request.tenant = None
    THEN denied_log("access_denied", request, None, None)
    ELSE IF SUPERUSER_BYPASS /\ request.user.is_superuser
    THEN << >>
    ELSE IF ~is_member(TenantUserOf(request)).ret
    THEN denied_log("access_denied", request, request.tenant, None)
    ELSE << >>

\* the audit records of tenant_permission_required
tenant_permission_required_audit(perm_list, raise_exception, require_all, request) ==
    IF ~request.user.is_authenticated
    THEN << >>
    ELSE IF request.tenant = None
    THEN << >>
    ELSE IF SUPERUSER_BYPASS /\ request.user.is_superuser
    THEN << >>
    ELSE LET checked == is_member(TenantUserOf(request))
         IN  IF ~checked.ret
             THEN denied_log("access_denied", request, request.tenant, None)
             ELSE LET granted == IF require_all
                                 THEN has_perms(checked.self, perm_list).ret
                                 ELSE any_has_perm(checked.self, perm_list)
                      checks == IF require_all
                                THEN has_perms_log(checked.self, perm_list)
                                ELSE any_has_perm_log(checked.self, perm_list)
                  IN  IF granted
                      THEN checks.audit
                      ELSE checks.audit \o denied_log("access_denied", request,
                                                      request.tenant, Some(perm_list))

\* the audit records of tenant_role_required
tenant_role_required_audit(role_names, raise_exception, require_all, request) ==
    IF tenant_role_required(role_names, raise_exception, require_all, request) = "view"
    THEN << >>
    ELSE IF ~request.user.is_authenticated
    THEN << >>
    ELSE IF request.tenant = None
    THEN << >>
    ELSE IF ~is_member(TenantUserOf(request)).ret
    THEN << >>
    ELSE denied_log("access_denied", request, request.tenant, None)

\* the audit records of IsTenantMember.has_permission
IsTenantMember_audit(request) ==
    IF ~request.user.is_authenticated
    THEN << >>
    ELSE IF request.tenant = None
    THEN << >>
    ELSE IF request.user.is_superuser
    THEN << >>
    ELSE IF ~is_member(TenantUserOf(request)).ret
    THEN denied_log("api_permission_denied", request, request.tenant, None)
    ELSE << >>

\* the audit records of TenantPermission.has_permission
TenantPermission_audit(perms, require_all, request) ==
    IF ~request.user.is_authenticated
    THEN << >>
    ELSE IF request.tenant = None
    THEN << >>
    ELSE IF request.user.is_superuser
    THEN << >>
    ELSE LET checked == is_member(TenantUserOf(request))
         IN  IF ~checked.ret
             THEN << >>
             ELSE IF perms = << >>
             THEN << >>
             ELSE LET granted == IF require_all
                                 THEN has_perms(checked.self, perms).ret
                                 ELSE any_has_perm(checked.self, perms)
                      checks == IF require_all
                                THEN has_perms_log(checked.self, perms)
                                ELSE any_has_perm_log(checked.self, perms)
                  IN  IF granted
                      THEN checks.audit
                      ELSE checks.audit \o denied_log("api_permission_denied", request,
                                                      request.tenant, Some(perms))

\* the audit records of TenantAdminPermission.has_permission: it calls
\* get_roles only and never audit_log
TenantAdminPermission_audit(request) == << >>

\* nothing has been evaluated yet
NoEvaluation ==
    [entry |-> "", user |-> None, result |-> "", checks |-> << >>, audit |-> << >>]

\* how a call that handed these records to audit_log ends
Outcome(result, records) ==
    IF Propagated(records) THEN HandlerError ELSE result

\* has_perm makes its check and then its audit_log call: when that call raises,
\* no further check is made
Evaluated(entry, user, result, log) ==
    [entry |-> entry, user |-> Some(user), result |-> Outcome(result, log.audit),
     checks |-> IF Propagated(log.audit) THEN <<Head(log.checks)>> ELSE log.checks,
     audit |-> Emitted(log.audit)]

Guarded(entry, request, result, records) ==
    [entry |-> entry, user |-> Some(request.user), result |-> Outcome(result, records),
     checks |-> << >>, audit |-> Emitted(records)]

Text(b) == IF b THEN "True" ELSE "False"

\* application code evaluates permissions through the identity context or
\* through the engine, for a tenant it took from the store
EvaluateHasPerm(user, t, perm) ==
    /\ audited = NoEvaluation
    /\ LET self == TenantUser(user, Some(TenantObject(t)))
       IN  audited' = Evaluated("TenantUser.has_perm", user,
                                Text(has_perm(self, perm).ret),
                                has_perm_log(self, perm))
    /\ UNCHANGED <<storeVars, SUPERUSER_BYPASS, outcome, tu, first, tableVars, webVars>>

EvaluateHasPerms(user, t, perm_list) ==
    /\ audited = NoEvaluation
    /\ LET self == TenantUser(user, Some(TenantObject(t)))
       IN  audited' = Evaluated("TenantUser.has_perms", user,
                                Text(has_perms(self, perm_list).ret),
                                has_perms_log(self, perm_list))
    /\ UNCHANGED <<storeVars, SUPERUSER_BYPASS, outcome, tu, first, tableVars, webVars>>

EvaluateCheckPermission(user, t, perm) ==
    /\ audited = NoEvaluation
    /\ LET tenant == Some(TenantObject(t))
       IN  audited' = Evaluated("PermissionChecker.check_permission", user,
                                Text(check_permission(user, tenant, perm, None)),
                                check_permission_log(user, tenant, perm, None))
    /\ UNCHANGED <<storeVars, SUPERUSER_BYPASS, outcome, tu, first, tableVars, webVars>>

EvaluateHasAnyPermission(user, t, perm_list) ==
    /\ audited = NoEvaluation
    /\ LET tenant == Some(TenantObject(t))
       IN  audited' = Evaluated("PermissionChecker.has_any_permission", user,
                                Text(has_any_permission(user, tenant, perm_list, None)),
                                has_any_permission_log(user, tenant, perm_list, None))
    /\ UNCHANGED <<storeVars, SUPERUSER_BYPASS, outcome, tu, first, tableVars, webVars>>

EvaluateHasAllPermissions(user, t, perm_list) ==
    /\ audited = NoEvaluation
    /\ LET tenant == Some(TenantObject(t))
       IN  audited' = Evaluated("PermissionChecker.has_all_permissions", user,
                                Text(has_all_permissions(user, tenant, perm_list, None)),
                                has_all_permissions_log(user, tenant, perm_list, None))
    /\ UNCHANGED <<storeVars, SUPERUSER_BYPASS, outcome, tu, first, tableVars, webVars>>

\* a guarded view or API view is requested
GuardTenantLoginRequired(request) ==
    /\ audited = NoEvaluation
    /\ audited' = Guarded("tenant_login_required", request,
                           tenant_login_required(request),
                           tenant_login_required_audit(request))
    /\ UNCHANGED <<storeVars, SUPERUSER_BYPASS, outcome, tu, first, tableVars, webVars>>

GuardTenantPermissionRequired(perm_list, raise_exception, require_all, request) ==
    /\ audited = NoEvaluation
    /\ audited' = Guarded("tenant_permission_required", request,
                           tenant_permission_required(perm_list, raise_exception,
                                                      require_all, request),
                           tenant_permission_required_audit(perm_list, raise_exception,
                                                            require_all, request))
    /\ UNCHANGED <<storeVars, SUPERUSER_BYPASS, outcome, tu, first, tableVars, webVars>>

GuardTenantRoleRequired(role_names, raise_exception, require_all, request) ==
    /\ audited = NoEvaluation
    /\ audited' = Guarded("tenant_role_required", request,
                           tenant_role_required(role_names, raise_exception,
                                                require_all, request),
                           tenant_role_required_audit(role_names, raise_exception,
                                                      require_all, request))
    /\ UNCHANGED <<storeVars, SUPERUSER_BYPASS, outcome, tu, first, tableVars, webVars>>

GuardIsTenantMember(request) ==
    /\ audited = NoEvaluation
    /\ audited' = Guarded("IsTenantMember", request,
                           Text(IsTenantMember(request)),
                           IsTenantMember_audit(request))
    /\ UNCHANGED <<storeVars, SUPERUSER_BYPASS, outcome, tu, first, tableVars, webVars>>

GuardTenantPermission(perms, require_all, request) ==
    /\ audited = NoEvaluation
    /\ audited' = Guarded("TenantPermission", request,
                           Text(TenantPermission(perms, require_all, request)),
                           TenantPermission_audit(perms, require_all, request))
    /\ UNCHANGED <<storeVars, SUPERUSER_BYPASS, outcome, tu, first, tableVars, webVars>>

GuardTenantAdminPermission(request) ==
    /\ audited = NoEvaluation
    /\ audited' = Guarded("TenantAdminPermission", request,
                           Text(TenantAdminPermission(request)),
                           TenantAdminPermission_audit(request))
    /\ UNCHANGED <<storeVars, SUPERUSER_BYPASS, outcome, tu, first, tableVars, webVars>>

\* the evaluation or the guard has returned
EvaluationEnds ==
    /\ audited # NoEvaluation
    /\ audited' = NoEvaluation
    /\ UNCHANGED <<storeVars, SUPERUSER_BYPASS, outcome, tu, first, tableVars, webVars>>

----------------------------------------------------------------------------
(* models.py and utils.py: permission codenames. A codename is text, a        *)
(* sequence of one-character strings; in this part a Permission row is         *)
(* <<tenant, codename text>>.                                                  *)

LowercaseLetters ==
    {"a", "b", "c", "d", "e", "f", "g", "h", "i", "j", "k", "l", "m",
     "n", "o", "p", "q", "r", "s", "t", "u", "v", "w", "x", "y", "z"}
Digits == {"0", "1", "2", "3", "4", "5", "6", "7", "8", "9"}

\* [a-z][a-z0-9_]*
MatchesSegment(x) ==
    /\ Len(x) >= 1
    /\ x[1] \in LowercaseLetters
    /\ \A j \in DOMAIN x : x[j] \in LowercaseLetters \cup Digits \cup {"_"}

\* [a-z][a-z0-9_]*\.[a-z][a-z0-9_]* over the whole of x
MatchesWhole(x) ==
    \E i \in DOMAIN x :
        /\ x[i] = "."
        /\ MatchesSegment(SubSeq(x, 1, i - 1))
        /\ MatchesSegment(SubSeq(x, i + 1, Len(x)))

\* PERMISSION_CODENAME_REGEX.match(codename): ^ is the start of the text, and
\* $ is its end or the place before a newline that ends it
PERMISSION_CODENAME_REGEX_match(codename) ==
    \/ MatchesWhole(codename)
    \/ /\ Len(codename) >= 1
       /\ codename[Len(codename)] = "\n"
       /\ MatchesWhole(SubSeq(codename, 1, Len(codename) - 1))

\* utils.is_valid_permission_codename
is_valid_permission_codename(codename) ==
    IF codename = << >>
    THEN FALSE
    ELSE PERMISSION_CODENAME_REGEX_match(codename)

\* Permission.full_clean(): the field is not blank, clean() accepts the
\* codename, and no other row has the tenant and the codename
permission_full_clean(tenant, codename, others) ==
    IF codename = << >>
    THEN Raise("ValidationError")
    ELSE IF ~PERMISSION_CODENAME_REGEX_match(codename)
    THEN Raise("ValidationError")
    ELSE IF <<tenant, codename>> \in others
    THEN Raise("ValidationError")
    ELSE Return(<<tenant, codename>>)

\* Permission.objects.create(tenant=tenant, codename=codename, ...)
PermissionCreate(tenant, codename) ==
    /\ LET cleaned == permission_full_clean(tenant, codename, permissions)
       IN  IF cleaned.raised # ""
           THEN /\ outcome' = Raised("Permission.objects.create", cleaned.raised)
                /\ UNCHANGED permissions
           ELSE /\ permissions' = permissions \cup {cleaned.value}
                /\ outcome' = Ok("Permission.objects.create")
    /\ UNCHANGED <<tenant_is_active, memberships, roles, SUPERUSER_BYPASS, tu, first, extVars>>

\* permission.codename = codename; permission.save() on a stored row
PermissionSave(row, codename) ==
    /\ row \in permissions
    /\ LET cleaned == permission_full_clean(row[1], codename, permissions \ {row})
       IN  IF cleaned.raised # ""
           THEN /\ outcome' = Raised("Permission.save", cleaned.raised)
                /\ UNCHANGED permissions
           ELSE /\ permissions' = (permissions \ {row}) \cup {cleaned.value}
                /\ outcome' = Ok("Permission.save")
    /\ UNCHANGED <<tenant_is_active, memberships, roles, SUPERUSER_BYPASS, tu, first, extVars>>

\* permission.delete()
PermissionDelete(row) ==
    /\ row \in permissions
    /\ permissions' = permissions \ {row}
    /\ outcome' = Ok("Permission.delete")
    /\ UNCHANGED <<tenant_is_active, memberships, roles, SUPERUSER_BYPASS, tu, first, extVars>>

----------------------------------------------------------------------------
(* Specifications *)

\* the store operations on the rows of the tenants TS, the roles RS and the
\* permissions PS
StoreNext(TS, RS, PS) ==
    \/ \E u \in Users, t \in TS, b \in BOOLEAN : CreateMembership(u, t, b)
    \/ \E u \in Users, t \in TS, rs \in SUBSET RS, b \in BOOLEAN :
          AddMember(t, u, rs, b)
    \/ \E m \in Users \X TS, r \in RS : AddRole(m, r)
    \/ \E m \in Users \X TS, r \in RS : RemoveRole(m, r)
    \/ \E r \in RS, p \in PS : AddPermission(r, p)
    \/ \E r \in RS, p \in PS : RolePermissionsRemove(r, p)
    \/ \E t \in TS, b \in BOOLEAN : SetTenantActive(t, b)
    \/ \E m \in Users \X TS, b \in BOOLEAN : SetMembershipActive(m, b)
    \/ \E r \in RS, b \in BOOLEAN : SetRoleActive(r, b)
    \/ \E r \in RS : CreateRole(r)
    \/ \E p \in PS : CreatePermission(p)
    \/ \E m \in Users \X TS : DeleteMembership(m)
    \/ \E r \in RS : DeleteRole(r)
    \/ \E p \in PS : DeletePermission(p)

\* a provisioned deployment: tenants, roles and permissions exist, nobody has joined
RowsInit ==
    /\ tenant_is_active = [t \in Tenants |-> TRUE]
    /\ memberships = << >>
    /\ roles = [r \in Roles |-> [is_active |-> TRUE, permissions |-> {}]]
    /\ permissions = Permissions
    /\ outcome = Ok("init")
    /\ tu = None
    /\ first = NothingSeen

Init ==
    /\ RowsInit
    /\ SUPERUSER_BYPASS \in BOOLEAN
    /\ TableInit
    /\ WebInit
    /\ audited = NoEvaluation

\* the store under every operation on every row
Next == StoreNext(Tenants, Roles, Permissions)

Spec == Init /\ [][Next]_vars

\* one tenant's requests: identity contexts for that tenant are built and used
\* while the rows that tenant's memberships can reach change under them
RequestTenants == {"t1"}
RequestRoles == {r \in Roles : role_tenant_id(r) \in RequestTenants}
RequestPermissions == {p \in Permissions : permission_tenant_id(p) \in RequestTenants}
\* the permission lists handed to has_perms: every list of at most MaxPermList codenames
MaxPermList == 2
RequestPermLists == UNION {[1..n -> Codenames] : n \in 0..MaxPermList}

NextRequest ==
    \/ StoreNext(RequestTenants, RequestRoles, RequestPermissions)
    \/ \E user \in UserObjects, t \in RequestTenants : Construct(user, t)
    \/ CallMembership
    \/ CallIsMember
    \/ \E perm \in Codenames : CallHasPerm(perm)
    \/ \E perm_list \in RequestPermLists : CallHasPerms(perm_list)
    \/ CallGetAllPermissions
    \/ CallGetRoles

SpecRequest == Init /\ [][NextRequest]_vars

\* concurrent callers creating memberships: their statements interleave freely
NextMembership ==
    \/ \E c \in CallIds, u \in Users, t \in Tenants, b \in BOOLEAN :
          ObjectsCreate(c, u, t, b)
    \/ \E c \in CallIds, u \in Users, t \in Tenants, b \in BOOLEAN :
          \E rs \in SUBSET {r \in Roles : role_tenant_id(r) = t} :
              AddMemberGet(c, u, t, rs, b)
    \/ \E c \in CallIds : AddMemberCreate(c)
    \/ \E c \in CallIds : AddMemberSetRoles(c)
    \/ \E c \in CallIds : CallReturns(c)

SpecMembership == Init /\ [][NextMembership]_vars


\* permission evaluations and guarded requests on one tenant while its rows
\* change; auditing is on or off for the whole run
AuditUsers == UserObjects \cup {AnonymousUser}
\* the request reaches the guard without a tenant or with the tenant the
\* middleware resolved, and without an identity of its own
AttachedTenants == {None} \cup {Some(t) : t \in RequestTenants}
RequestOn(user, attached) ==
    Request(user,
            IF attached = None THEN None ELSE Some(TenantObject(Val(attached))),
            None)
RoleNameLists == {<<"Admin">>, <<"Admin", "Owner">>}

InitAudit ==
    /\ RowsInit
    /\ SUPERUSER_BYPASS \in BOOLEAN
    /\ TableInit
    /\ tenants = << >>
    /\ settings \in {[DefaultSettings EXCEPT !.AUDIT_ENABLED = b] : b \in BOOLEAN}
    /\ http_request = NewRequest
    /\ trace = NoExchange
    /\ audited = NoEvaluation

NextAudit ==
    \/ StoreNext(RequestTenants, RequestRoles, RequestPermissions)
    \/ \E user \in UserObjects, t \in RequestTenants, perm \in Codenames :
          EvaluateHasPerm(user, t, perm)
    \/ \E user \in UserObjects, t \in RequestTenants, perm_list \in RequestPermLists :
          EvaluateHasPerms(user, t, perm_list)
    \/ \E user \in UserObjects, t \in RequestTenants, perm \in Codenames :
          EvaluateCheckPermission(user, t, perm)
    \/ \E user \in UserObjects, t \in RequestTenants, perm_list \in RequestPermLists :
          EvaluateHasAnyPermission(user, t, perm_list)
    \/ \E user \in UserObjects, t \in RequestTenants, perm_list \in RequestPermLists :
          EvaluateHasAllPermissions(user, t, perm_list)
    \/ \E user \in AuditUsers, attached \in AttachedTenants :
          GuardTenantLoginRequired(RequestOn(user, attached))
    \/ \E user \in AuditUsers, attached \in AttachedTenants,
          perm_list \in RequestPermLists \ {<< >>},
          raise_exception \in BOOLEAN, require_all \in BOOLEAN :
          GuardTenantPermissionRequired(perm_list, raise_exception, require_all,
                                        RequestOn(user, attached))
    \/ \E user \in AuditUsers, attached \in AttachedTenants,
          role_names \in RoleNameLists,
          raise_exception \in BOOLEAN, require_all \in BOOLEAN :
          GuardTenantRoleRequired(role_names, raise_exception, require_all,
                                  RequestOn(user, attached))
    \/ \E user \in AuditUsers, attached \in AttachedTenants :
          GuardIsTenantMember(RequestOn(user, attached))
    \/ \E user \in AuditUsers, attached \in AttachedTenants,
          perms \in RequestPermLists, require_all \in BOOLEAN :
          GuardTenantPermission(perms, require_all, RequestOn(user, attached))
    \/ \E user \in AuditUsers, attached \in AttachedTenants :
          GuardTenantAdminPermission(RequestOn(user, attached))
    \/ EvaluationEnds

SpecAudit == InitAudit /\ [][NextAudit]_vars


\* the codenames written: the examples of the documentation and the tests,
\* and text at the edges of the pattern
Text_app_action_model == <<"a", "p", "p", ".", "a", "c", "t", "i", "o", "n", "_", "m", "o", "d", "e", "l">>
Text_orders_view_order == <<"o", "r", "d", "e", "r", "s", ".", "v", "i", "e", "w", "_", "o", "r", "d", "e", "r">>
Text_InvalidFormat == <<"I", "n", "v", "a", "l", "i", "d", "F", "o", "r", "m", "a", "t">>
Text_orders_bad == <<"o", "r", "d", "e", "r", "s", ".", ".", "b", "a", "d">>
Text_Orders_View == <<"O", "r", "d", "e", "r", "s", ".", "V", "i", "e", "w">>
CodenameChoices ==
    {Text_app_action_model, Text_orders_view_order, Text_InvalidFormat, Text_orders_bad, Text_Orders_View,
     <<"a", ".", "b">>,
     <<"a", "1", "_", ".", "b", "_", "2">>,
     <<"a", ".", "b", "\n">>,
     <<"a", ".", "b", "\n", "\n">>,
     <<"\n", "a", ".", "b">>,
     << >>,
     <<"a", ".">>,
     <<".", "b">>,
     <<"1", "a", ".", "b">>,
     <<"a", ".", "1", "b">>,
     <<"_", "a", ".", "b">>,
     <<"a", ".", "b", ".", "c">>,
     <<"a", " ", "b", ".", "c">>}

\* Permission rows written with any of these codenames, no roles or members
InitCodename ==
    /\ tenant_is_active = [t \in Tenants |-> TRUE]
    /\ memberships = << >>
    /\ roles = << >>
    /\ permissions = {}
    /\ outcome = Ok("init")
    /\ tu = None
    /\ first = NothingSeen
    /\ SUPERUSER_BYPASS = TRUE
    /\ TableInit
    /\ WebInit
    /\ audited = NoEvaluation

NextCodename ==
    \/ \E t \in Tenants, codename \in CodenameChoices : PermissionCreate(t, codename)
    \/ \E row \in Tenants \X CodenameChoices, codename \in CodenameChoices :
          PermissionSave(row, codename)
    \/ \E row \in Tenants \X CodenameChoices : PermissionDelete(row)

SpecCodename == InitCodename /\ [][NextCodename]_vars

\* the slugs and domains given to tenants, the hosts, paths and tenant headers
\* of the requests: "ab" and "ab.io" in both cases, with and without a port,
\* under the base domain "B.io", and text that names no tenant
SlugChoices == {<<"a", "b">>, <<"A", "b">>}
DomainChoices ==
    {None, Some(<<"a", "b", ".", "i", "o">>), Some(<<"A", "b", ".", "i", "o">>)}
RequestHosts ==
    {<<"a", "b", ".", "i", "o">>,
     <<"A", "B", ".", "i", "o", ":", "8", "0">>,
     <<"a", "b", ".", "b", ".", "i", "o">>,
     <<"A", "b", ".", "B", ".", "i", "o", ":", "8", "0">>,
     <<"b", ".", "i", "o">>,
     <<"a", "b", ".", "x", ".", "b", ".", "i", "o">>,
     <<".", "b", ".", "i", "o">>,
     <<"a", "b", ".", "b", ".", "i", "o", ".", "e", ".", "i", "o">>}
RequestPaths ==
    {<<"/", "a", "b", "/">>, <<"/", "A", "b", "/", "w">>, <<"/", "a", "b">>,
     <<"/", "h", "/">>}
RequestHeaders ==
    {None, Some(<< >>), Some(<<"a", "b">>), Some(<<"A", "B">>), Some(<<"z">>)}

\* the requests: each differs from the first in its host, its path or its header
BaseRequest ==
    [host |-> <<"a", "b", ".", "i", "o">>, path |-> <<"/", "a", "b", "/">>,
     header |-> Some(<<"a", "b">>)]
Requests ==
    {[BaseRequest EXCEPT !.host = h] : h \in RequestHosts}
    \cup {[BaseRequest EXCEPT !.path = p] : p \in RequestPaths}
    \cup {[BaseRequest EXCEPT !.header = x] : x \in RequestHeaders}

Strategies == {"domain", "subdomain", "path", "header"}
Databases == {"sqlite", "mysql"}

\* the resolvers over a Tenant table written through the model API
InitResolver ==
    /\ RowsInit
    /\ SUPERUSER_BYPASS = TRUE
    /\ TableInit
    /\ tenants = << >>
    /\ settings \in {[DefaultSettings EXCEPT !.TENANT_RESOLUTION_STRATEGY = s,
                                            !.TENANT_NOT_FOUND_HANDLER = "none",
                                            !.DATABASE = d] :
                        s \in Strategies, d \in Databases}
    /\ http_request = NewRequest
    /\ trace = NoExchange
    /\ audited = NoEvaluation

\* every request gets a new request object
NextResolver ==
    \/ \E pk \in Tenants, slug \in SlugChoices, domain \in DomainChoices, b \in BOOLEAN :
          TenantCreate(pk, slug, domain, b)
    \/ \E pk \in Tenants, slug \in SlugChoices, domain \in DomainChoices, b \in BOOLEAN :
          TenantSave(pk, slug, domain, b)
    \/ \E pk \in Tenants, slug \in SlugChoices, domain \in DomainChoices, b \in BOOLEAN :
          TenantFullCleanSave(pk, slug, domain, b)
    \/ \E pk \in Tenants : TenantDelete(pk)
    \/ \E r \in Requests : HandleRequest(r.host, r.path, r.header, Some(AnonymousUser))
    \/ ExchangeEnds(FALSE)

SpecResolver == InitResolver /\ [][NextResolver]_vars

\* the middleware chain under every failure handler, with and without an
\* exemption pattern, over one tenant that comes, goes and is switched off
ExemptChoices == {<< >>, <<(<<"/", "h", "/">>)>>}
RequestUsers == {None, Some(AnonymousUser)} \cup {Some(u) : u \in UserObjects}
ChainTenants == {"t1"}

InitMiddleware ==
    /\ RowsInit
    /\ SUPERUSER_BYPASS = TRUE
    /\ TableInit
    /\ tenants = << >>
    /\ settings \in {[DefaultSettings EXCEPT !.TENANT_RESOLUTION_STRATEGY = s,
                                            !.TENANT_NOT_FOUND_HANDLER = h,
                                            !.TENANT_EXEMPT_URLS = e,
                                            !.AUDIT_ENABLED = a] :
                        s \in Strategies, h \in HandlerPaths, e \in ExemptChoices,
                        a \in BOOLEAN}
    /\ http_request = NewRequest
    /\ trace = NoExchange
    /\ audited = NoEvaluation

\* a request object may be reused
NextMiddleware ==
    \/ \E pk \in ChainTenants, b \in BOOLEAN :
          TenantCreate(pk, <<"a", "b">>, Some(<<"a", "b", ".", "i", "o">>), b)
    \/ \E pk \in ChainTenants, b \in BOOLEAN :
          TenantSave(pk, <<"a", "b">>, Some(<<"a", "b", ".", "i", "o">>), b)
    \/ \E pk \in ChainTenants : TenantDelete(pk)
    \/ \E reused \in BOOLEAN : ExchangeEnds(reused)
    \/ \E r \in Requests, user \in RequestUsers :
          HandleRequest(r.host, r.path, r.header, user)

SpecMiddleware == InitMiddleware /\ [][NextMiddleware]_vars

\* requests, permission queries and guarded views with the audit logger
\* disabled, enabled, and enabled with a handler that raises
AuditHandlers == {"stream", "raising"}

InitSink ==
    /\ RowsInit
    /\ SUPERUSER_BYPASS \in BOOLEAN
    /\ TableInit
    /\ tenants = << >>
    /\ settings \in {[DefaultSettings EXCEPT !.AUDIT_ENABLED = b,
                                            !.AUDIT_HANDLER = h,
                                            !.TENANT_NOT_FOUND_HANDLER = "none"] :
                        b \in BOOLEAN, h \in AuditHandlers}
    /\ http_request = NewRequest
    /\ trace = NoExchange
    /\ audited = NoEvaluation

\* a host that names the tenant and one that names none
SinkHosts == {<<"a", "b", ".", "i", "o">>, <<"b", ".", "i", "o">>}

NextSink ==
    \/ \E u \in Users, t \in RequestTenants, rs \in SUBSET RequestRoles, b \in BOOLEAN :
          AddMember(t, u, rs, b)
    \/ \E r \in RequestRoles, p \in RequestPermissions : AddPermission(r, p)
    \/ \E pk \in ChainTenants, b \in BOOLEAN :
          TenantCreate(pk, <<"a", "b">>, Some(<<"a", "b", ".", "i", "o">>), b)
    \/ \E host \in SinkHosts, user \in RequestUsers :
          HandleRequest(host, BaseRequest.path, BaseRequest.header, user)
    \/ ExchangeEnds(FALSE)
    \/ \E user \in UserObjects, t \in RequestTenants, perm \in Codenames :
          EvaluateHasPerm(user, t, perm)
    \/ \E user \in AuditUsers, attached \in AttachedTenants :
          GuardTenantLoginRequired(RequestOn(user, attached))
    \/ \E user \in AuditUsers, attached \in AttachedTenants, perm \in Codenames,
          raise_exception \in BOOLEAN, require_all \in BOOLEAN :
          GuardTenantPermissionRequired(<<perm>>, raise_exception, require_all,
                                        RequestOn(user, attached))
    \/ EvaluationEnds

SpecSink == InitSink /\ [][NextSink]_vars

----------------------------------------------------------------------------
(* Properties *)

Plain(u) == [id |-> u, is_superuser |-> FALSE, is_authenticated |-> TRUE]
Super(u) == [id |-> u, is_superuser |-> TRUE, is_authenticated |-> TRUE]

\* the user is let through by the superuser bypass
Bypassed(user) == SUPERUSER_BYPASS /\ user.is_superuser

\* the store holds a membership row of u in t whose active flag is set
ActiveRow(u, t) ==
    <<u, t>> \in DOMAIN memberships /\ memberships[<<u, t>>].is_active

\* u's active membership in t holds an active role owned by t that has a
\* permission owned by t with codename P
Granted(u, t, P) ==
    /\ ActiveRow(u, t)
    /\ \E r \in memberships[<<u, t>>].roles :
          /\ role_tenant_id(r) = t
          /\ roles[r].is_active
          /\ \E p \in roles[r].permissions :
                permission_tenant_id(p) = t /\ permission_codename(p) = P

\* some role assigned to u's membership in t is active and has codename P assigned
RoleGrants(u, t, P) ==
    \E r \in memberships[<<u, t>>].roles :
        roles[r].is_active /\ \E p \in roles[r].permissions : permission_codename(p) = P

CurrentTenant(t) == Some(TenantObject(t))
Fresh(user, t) == TenantUser(user, CurrentTenant(t))

\* C1: tenant isolation. For a non-superuser granted P in active tenant T1 and
\* not in active tenant T2, check_permission and a new TenantUser's has_perm
\* return true for T1 and false for T2.
C1_TenantIsolation ==
    \A u \in Users, t1 \in Tenants, t2 \in Tenants, P \in Codenames :
        ( /\ t1 # t2
          /\ tenant_is_active[t1] /\ tenant_is_active[t2]
          /\ Granted(u, t1, P) /\ ~Granted(u, t2, P) )
        => /\ check_permission(Plain(u), CurrentTenant(t1), P, None)
           /\ has_perm(Fresh(Plain(u), t1), P).ret
           /\ ~check_permission(Plain(u), CurrentTenant(t2), P, None)
           /\ ~has_perm(Fresh(Plain(u), t2), P).ret

\* C2: cross-tenant assignment rejection. Every role attached to a membership
\* is owned by the membership's tenant and every permission attached to a role
\* is owned by the role's tenant, because add_role, add_member with roles and
\* add_permission reject an object of another tenant.
C2_CrossTenantAssignmentRejected ==
    /\ \A m \in DOMAIN memberships : \A r \in memberships[m].roles :
          role_tenant_id(r) = membership_tenant_id(m)
    /\ \A r \in DOMAIN roles : \A p \in roles[r].permissions :
          permission_tenant_id(p) = role_tenant_id(r)

\* C3: superuser bypass. With the bypass enabled a superuser is granted every
\* codename for every tenant argument (None, active or inactive), by
\* check_permission and by has_perm of a new TenantUser, whatever membership
\* the store holds.
C3_SuperuserBypass ==
    SUPERUSER_BYPASS =>
        \A u \in Users, tenant \in TenantArguments, P \in Codenames :
            /\ check_permission(Super(u), tenant, P, None) = TRUE
            /\ has_perm(TenantUser(Super(u), tenant), P).ret = TRUE

\* the bypass is on, t1 is inactive and u1 has no membership in it, u1's
\* membership in t2 is inactive, and the superuser is granted a codename no
\* permission carries
C3_Witness ==
    /\ SUPERUSER_BYPASS
    /\ ~tenant_is_active["t1"]
    /\ <<"u1", "t1">> \notin DOMAIN memberships
    /\ <<"u1", "t2">> \in DOMAIN memberships
    /\ ~memberships[<<"u1", "t2">>].is_active
    /\ check_permission(Super("u1"), CurrentTenant("t1"), "orders.delete_order", None)
    /\ check_permission(Super("u1"), None, "orders.delete_order", None)

\* every decision the guards and the engine take about user object `user`
\* in tenant t
Decisions(user, t) ==
    LET request == Request(user, CurrentTenant(t), None)
    IN  [check |-> [P \in Codenames |-> check_permission(user, CurrentTenant(t), P, None)],
         perms |-> get_user_permissions(user, CurrentTenant(t), None),
         login |-> tenant_login_required(request),
         perm  |-> [P \in Codenames |->
                      tenant_permission_required(<<P>>, TRUE, TRUE, request)],
         role  |-> tenant_role_required(<<admin_role_name>>, TRUE, FALSE, request),
         api_member |-> IsTenantMember(request),
         api_perm |-> [P \in Codenames |-> TenantPermission(<<P>>, TRUE, request)],
         api_admin |-> TenantAdminPermission(request),
         backend |-> verify_tenant_membership(user, CurrentTenant(t))]

\* C4: with the bypass disabled, a superuser and a user who differs from it
\* only in the superuser flag get the same decision from the engine, the view
\* guards, the API guards and the backend's membership verification.
C4_BypassGatedEverywhere ==
    ~SUPERUSER_BYPASS =>
        \A u \in Users, t \in Tenants : Decisions(Super(u), t) = Decisions(Plain(u), t)

\* C5: inactive role exclusion. For a user not bypassed with an active
\* membership in an active tenant, check_permission is true exactly when an
\* assigned role is active and has the codename; and changing a role's active
\* flag leaves every membership's roles as they were.
C5_InactiveRoleExclusion ==
    /\ [](\A user \in UserObjects, t \in Tenants, P \in Codenames :
            (~Bypassed(user) /\ tenant_is_active[t] /\ ActiveRow(user.id, t))
            => (check_permission(user, CurrentTenant(t), P, None)
                  <=> RoleGrants(user.id, t, P)))
    /\ [][(\E r \in DOMAIN roles \cap DOMAIN roles' :
              roles[r].is_active # roles'[r].is_active)
          => memberships' = memberships]_vars

\* u1, not bypassed, has an active membership in active t1 holding a
\* deactivated role that has the codename, and is refused
C5_Witness ==
    /\ tenant_is_active["t1"]
    /\ ActiveRow("u1", "t1")
    /\ \E r \in memberships[<<"u1", "t1">>].roles :
          /\ ~roles[r].is_active
          /\ \E p \in roles[r].permissions : permission_codename(p) = "orders.view_order"
    /\ ~check_permission(Plain("u1"), CurrentTenant("t1"), "orders.view_order", None)

\* C6: for a user not bypassed, check_permission returns false whenever the
\* tenant argument is None or an inactive tenant, with or without a
\* pre-fetched membership, whatever the membership grants.
C6_TenantAbsentOrInactive ==
    \A user \in UserObjects, tenant \in TenantArguments, P \in Codenames :
        (~Bypassed(user) /\ (tenant = None \/ ~Val(tenant).is_active))
        => /\ check_permission(user, tenant, P, None) = FALSE
           /\ check_permission(user, tenant, P, ActiveMembership(user, tenant)) = FALSE

\* t1 is inactive while u1's active membership in it holds an active role that
\* has the codename, and u1 is refused
C6_Witness ==
    /\ ~tenant_is_active["t1"]
    /\ ActiveRow("u1", "t1")
    /\ RoleGrants("u1", "t1", "orders.view_order")
    /\ check_permission(Plain("u1"), CurrentTenant("t1"), "orders.view_order", None) = FALSE

\* C7: while the membership of U in T is deactivated, for a user not bypassed
\* check_permission without a pre-fetched membership and has_perm of a new
\* TenantUser return false for every codename, is_member of a new TenantUser
\* is false and its get_all_permissions is empty.
C7_DeactivatedMembership ==
    \A user \in UserObjects, t \in Tenants :
        ( /\ ~Bypassed(user)
          /\ <<user.id, t>> \in DOMAIN memberships
          /\ ~memberships[<<user.id, t>>].is_active )
        => /\ \A P \in Codenames :
                 /\ check_permission(user, CurrentTenant(t), P, None) = FALSE
                 /\ has_perm(Fresh(user, t), P).ret = FALSE
           /\ is_member(Fresh(user, t)).ret = FALSE
           /\ get_all_permissions(Fresh(user, t)).ret = {}

\* u1's membership in active t1 is deactivated while it holds an active role
\* that has the codename (which an active membership would be granted)
C7_Witness ==
    /\ tenant_is_active["t1"]
    /\ <<"u1", "t1">> \in DOMAIN memberships
    /\ ~memberships[<<"u1", "t1">>].is_active
    /\ RoleGrants("u1", "t1", "orders.view_order")
    /\ ~check_permission(Plain("u1"), CurrentTenant("t1"), "orders.view_order", None)
    /\ ~is_member(Fresh(Plain("u1"), "t1")).ret

C9_MembershipResultStable ==
    (tu # None /\ first.member # None) =>
        LET self == Val(tu)
        IN  /\ (membership(self).ret # None) = Val(first.member)
            /\ is_member(self).ret = Val(first.member)
            /\ \A P \in Codenames :
                  (~Bypassed(self.user) /\ has_perm(self, P).ret) => is_member(self).ret

\* what get_all_permissions is to return for the store as it is now
CurrentPermissions(user, t) ==
    IF Bypassed(user)
    THEN {permission_codename(p) : p \in {x \in permissions : permission_tenant_id(x) = t}}
    ELSE IF ActiveRow(user.id, t)
         THEN {P \in Codenames : RoleGrants(user.id, t, P)}
         ELSE {}

\* C10: on one instance every get_all_permissions after the first returns what
\* the first returned, the empty set included, whatever changed in the store;
\* a new instance returns the set the store gives now.
C10_PermissionsMemoized ==
    /\ (tu # None /\ first.perms # None)
          => get_all_permissions(Val(tu)).ret = Val(first.perms)
    /\ \A user \in UserObjects, t \in Tenants :
          get_all_permissions(Fresh(user, t)).ret = CurrentPermissions(user, t)

\* the instance's first get_all_permissions returned the empty set, the store
\* has since come to grant its user a codename, and the instance still returns
\* the empty set while a new instance returns the codename
C10_Witness ==
    /\ tu # None
    /\ first.perms = Some({})
    /\ get_all_permissions(Val(tu)).ret = {}
    /\ "orders.view_order" \in
          get_all_permissions(TenantUser(Val(tu).user, CurrentTenant(Val(Val(tu).tenant).id))).ret

\* C11: deleted-permission revocation. While the permission row of tenant T with
\* codename P is deleted, no role has it assigned; a user not bypassed gets
\* false from has_perm(P) of a new TenantUser(U, T) and P is not in its
\* get_all_permissions(); under the bypass a superuser's get_all_permissions()
\* of a new TenantUser does not contain P either.
C11_DeletedPermissionRevoked ==
    \A p \in Permissions \ permissions :
        LET T == permission_tenant_id(p)
            P == permission_codename(p)
        IN  /\ \A r \in DOMAIN roles : p \notin roles[r].permissions
            /\ \A user \in UserObjects :
                  /\ ~Bypassed(user) => has_perm(Fresh(user, T), P).ret = FALSE
                  /\ P \notin get_all_permissions(Fresh(user, T)).ret

\* C12: membership uniqueness. Under any interleaving of concurrent
\* TenantMembership creations and add_member calls the table holds at most one
\* row per (user, tenant); and the statement on which a call fails with
\* IntegrityError or ValidationError changes no row (no active flag, no role
\* set), whatever is_active and roles that call passed.
C12_MembershipUniqueness ==
    /\ [](\A u \in Users, t \in Tenants : Cardinality(RowsOf(u, t)) <= 1)
    /\ [][(\E c \in CallIds :
              /\ calls[c].pc # "done"
              /\ calls'[c].pc = "done"
              /\ calls'[c].result \in {"IntegrityError", "ValidationError"})
          => table' = table]_vars

\* u1 has a row in each tenant, its inactive row in t1 holds no role, and an
\* add_member for that pair, which got as far as its INSERT, has failed
C12_Witness ==
    /\ \A t \in Tenants : RowsOf("u1", t) # {}
    /\ \E row \in RowsOf("u1", "t1") : ~row.is_active /\ row.roles = {}
    /\ \E c \in CallIds : calls[c] = Done("ValidationError")
    /\ \E c \in CallIds : calls[c] = Done("IntegrityError")

\* the last request was not exempt and its resolution failed
ResolutionFailed ==
    /\ ~BetweenRequests
    /\ trace.resolved # None
    /\ Val(trace.resolved).raised # ""

\* C13: under the default TENANT_NOT_FOUND_HANDLER every failed resolution of
\* a non-exempt request (no tenant for the identifier, no identifier, or an
\* inactive tenant) ends the request with Http404, the view is not invoked and
\* request.tenant stays absent; an inactive tenant ends it as a missing one does.
C13_StrictFailureIsHttp404 ==
    ( /\ settings.TENANT_NOT_FOUND_HANDLER = "tenant_authx.handlers.default_tenant_not_found"
      /\ ResolutionFailed )
    => /\ trace.ended = "Http404"
       /\ trace.views = 0
       /\ http_request.tenant = None

\* the identifier the configured strategy takes from the request, None if the
\* request has none
Identifier(req) ==
    CASE settings.TENANT_RESOLUTION_STRATEGY = "domain" -> Some(HostName(req))
      [] settings.TENANT_RESOLUTION_STRATEGY = "subdomain" -> extract_subdomain(HostName(req))
      [] settings.TENANT_RESOLUTION_STRATEGY = "path" -> path_pattern_match(req.path)
      [] settings.TENANT_RESOLUTION_STRATEGY = "header" ->
            IF req.header = Some(<< >>) THEN None ELSE req.header

\* the tenants whose slug (domain, for the domain strategy) is the identifier
\* but for case
Matching(identifier) ==
    {pk \in DOMAIN tenants :
        /\ identifier # None
        /\ IF settings.TENANT_RESOLUTION_STRATEGY = "domain"
           THEN /\ tenants[pk].domain # None
                /\ lower(Val(tenants[pk].domain)) = lower(Val(identifier))
           ELSE lower(tenants[pk].slug) = lower(Val(identifier))}

\* C14: resolver result contract. Under each strategy resolve(request) returns
\* a tenant only if that tenant is in the store, active, and named by the
\* request's identifier but for case; with no tenant so named it raises
\* TenantNotFoundError carrying the identifier, with only inactive tenants so
\* named it raises TenantInactiveError; it never returns an inactive tenant.
C14_ResolverContract ==
    (~BetweenRequests /\ trace.resolved # None) =>
        LET result == Val(trace.resolved)
            identifier == Identifier(http_request)
            matching == Matching(identifier)
        IN  /\ result.raised \in {"", "TenantNotFoundError", "TenantInactiveError"}
            /\ result.raised = "" =>
                  /\ result.value.id \in matching
                  /\ tenants[result.value.id].is_active
                  /\ result.value.is_active
            /\ matching = {} =>
                  /\ result.raised = "TenantNotFoundError"
                  /\ identifier # None => result.identifier = identifier
            /\ (matching # {} /\ \A pk \in matching : ~tenants[pk].is_active) =>
                  result.raised = "TenantInactiveError"

\* spellings of one slug and of one domain
SlugSpellings == {<<"a", "b">>, <<"A", "b">>, <<"A", "B">>}
DomainSpellings ==
    {<<"a", "b", ".", "i", "o">>, <<"A", "b", ".", "i", "o">>, <<"A", "B", ".", "i", "o">>}

\* C15: tenant identifier normalisation. Whatever was created or saved through
\* Tenant.objects.create and Tenant.save, every stored slug and non-null domain
\* is lowercase, no two tenants have slugs or domains equal but for case, and
\* every spelling of an active tenant's slug or domain resolves to that tenant.
C15_IdentifiersNormalised ==
    /\ \A pk \in DOMAIN tenants :
          /\ tenants[pk].slug = lower(tenants[pk].slug)
          /\ tenants[pk].domain # None =>
                Val(tenants[pk].domain) = lower(Val(tenants[pk].domain))
    /\ \A pk \in DOMAIN tenants : \A other \in DOMAIN tenants \ {pk} :
          /\ lower(tenants[pk].slug) # lower(tenants[other].slug)
          /\ (tenants[pk].domain # None /\ tenants[other].domain # None) =>
                lower(Val(tenants[pk].domain)) # lower(Val(tenants[other].domain))
    /\ \A pk \in DOMAIN tenants :
          tenants[pk].is_active =>
             /\ \A spelling \in SlugSpellings :
                   lower(spelling) = lower(tenants[pk].slug) =>
                      get_tenant_by_slug(spelling) = Return(TenantRow(pk))
             /\ \A spelling \in DomainSpellings :
                   ( /\ tenants[pk].domain # None
                     /\ lower(spelling) = lower(Val(tenants[pk].domain)) ) =>
                      get_tenant_by_domain(spelling) = Return(TenantRow(pk))

\* the path starts with one of the configured exemption prefixes
MatchesExemption(path) ==
    \E i \in DOMAIN settings.TENANT_EXEMPT_URLS :
        /\ Len(path) >= Len(settings.TENANT_EXEMPT_URLS[i])
        /\ \A k \in DOMAIN settings.TENANT_EXEMPT_URLS[i] :
              path[k] = settings.TENANT_EXEMPT_URLS[i][k]

\* C16: exemption short-circuit. A request whose path matches an exemption
\* pattern goes through without the resolver being invoked and without an audit
\* record, request.tenant is absent, the view is invoked exactly once, and
\* after TenantUserMiddleware request.tenant_user is absent as well.
C16_ExemptionShortCircuit ==
    (~BetweenRequests /\ MatchesExemption(http_request.path)) =>
        /\ trace.resolver_calls = 0
        /\ trace.audit = << >>
        /\ http_request.tenant = None
        /\ trace.views = 1
        /\ trace.ended = "view_response"
        /\ http_request.tenant_user = None

\* an exempt request of an authenticated user went through although its tenant
\* header names an active tenant and auditing is enabled
C16_Witness ==
    /\ ~BetweenRequests
    /\ MatchesExemption(http_request.path)
    /\ settings.TENANT_RESOLUTION_STRATEGY = "header"
    /\ settings.AUDIT_ENABLED
    /\ resolve(http_request).raised = ""
    /\ http_request.user # None
    /\ Val(http_request.user).is_authenticated
    /\ trace.views = 1

\* what the dispatch is to do for each handler when the resolution of a
\* non-exempt request failed with `error`
DispatchedAsConfigured(error) ==
    LET handler == settings.TENANT_NOT_FOUND_HANDLER
    IN  /\ error \in {"TenantNotFoundError", "TenantInactiveError"}
        /\ handler = "raise" =>
              /\ trace.ended = error
              /\ trace.views = 0
        /\ handler = "none" =>
              /\ http_request.tenant = None
              /\ trace.views = 1
              /\ trace.ended = "view_response"
        /\ handler = "project.handlers.respond" =>
              /\ trace.ended = "handler_response"
              /\ trace.views = 0
              /\ http_request.tenant = None
        /\ handler = "project.handlers.fallback_tenant" =>
              /\ http_request.tenant = Some(FallbackTenant)
              /\ trace.views = 1
              /\ trace.ended = "view_response"
        /\ handler = "tenant_authx.handlers.return_none_on_tenant_not_found" =>
              /\ http_request.tenant = None
              /\ trace.views = 1

\* C17 as stated: failure-handler dispatch. When the resolution of a
\* non-exempt request fails: with handler "raise" the resolver's error leaves
\* the chain and the view is not invoked; with "none" request.tenant is absent
\* and the view is invoked once; a handler returning a response ends the
\* request with it, view not invoked, request.tenant absent; a handler
\* returning another value makes it request.tenant and the view is invoked
\* once. In no case is a tenant from the failed resolution attached.
C17_NoTenantOfFailedResolution ==
    ResolutionFailed =>
        /\ DispatchedAsConfigured(Val(trace.resolved).raised)
        /\ \A attached \in http_request.tenant : attached.id \notin DOMAIN tenants

\* C17 amended: the dispatch is as stated, and request.tenant after a failed
\* resolution is absent or exactly the value the handler returned; the
\* middleware attaches nothing of its own, but a handler that returns the
\* inactive tenant carried by TenantInactiveError gets that tenant attached.
C17_FailureHandlerDispatch ==
    ResolutionFailed =>
        LET handler == settings.TENANT_NOT_FOUND_HANDLER
            error == Val(trace.resolved)
        IN  /\ DispatchedAsConfigured(error.raised)
            /\ handler = "project.handlers.inactive_tenant" =>
                  /\ trace.views = 1
                  /\ http_request.tenant =
                        IF error.raised = "TenantInactiveError"
                        THEN Some(TenantRow(error.tenant))
                        ELSE None
            /\ handler \notin {"project.handlers.inactive_tenant",
                               "project.handlers.fallback_tenant"} =>
                  http_request.tenant = None

\* the resolver found an inactive tenant, the project's handler returned that
\* tenant, and the view ran once with the inactive tenant attached
C17_Witness ==
    /\ ResolutionFailed
    /\ Val(trace.resolved).raised = "TenantInactiveError"
    /\ settings.TENANT_NOT_FOUND_HANDLER = "project.handlers.inactive_tenant"
    /\ http_request.tenant # None
    /\ ~Val(http_request.tenant).is_active
    /\ Val(http_request.tenant).id \in DOMAIN tenants
    /\ trace.views = 1

\* C18: identity construction. After TenantUserMiddleware has processed a
\* request, request.tenant_user is present exactly when the request has an
\* authenticated user and request.tenant is present; it then wraps exactly
\* that user and that tenant, with empty caches. Otherwise it is None, also
\* on a request object that arrived with a tenant_user from an earlier request.
C18_IdentityConstruction ==
    (~BetweenRequests /\ trace.views = 1) =>
        LET user == http_request.user
            tenant == http_request.tenant
        IN  IF user # None /\ Val(user).is_authenticated /\ tenant # None
            THEN /\ http_request.tenant_user # None
                 /\ Val(http_request.tenant_user).user = Val(user)
                 /\ Val(http_request.tenant_user).tenant = tenant
                 /\ Val(http_request.tenant_user).permission_cache = None
                 /\ Val(http_request.tenant_user).membership_cache = None
                 /\ Val(http_request.tenant_user).is_member_cache = None
            ELSE http_request.tenant_user = None

\* a request object that arrived with the identity of an earlier request has
\* been processed for a request without tenant or authenticated user, and its
\* slot is None
C18_Witness ==
    /\ ~BetweenRequests
    /\ trace.views = 1
    /\ trace.arrived_with # None
    /\ http_request.tenant_user = None

\* an authenticated user on a resolved tenant got an identity
C18_WitnessPresent ==
    /\ ~BetweenRequests
    /\ trace.views = 1
    /\ http_request.tenant_user # None
    /\ Val(Val(http_request.tenant_user).tenant).id \in DOMAIN tenants

\* the entry points that evaluate permissions, and the guards
PermissionEntries ==
    {"TenantUser.has_perm", "TenantUser.has_perms",
     "PermissionChecker.check_permission", "PermissionChecker.has_any_permission",
     "PermissionChecker.has_all_permissions"}
GuardEntries ==
    {"tenant_login_required", "tenant_permission_required", "tenant_role_required",
     "IsTenantMember", "TenantPermission", "TenantAdminPermission"}

\* every single check has its own permission_check event, in order, tagged
\* with the checked codename and the outcome
ChecksAudited(evaluation) ==
    /\ Len(evaluation.audit) = Len(evaluation.checks)
    /\ \A i \in DOMAIN evaluation.checks :
          /\ evaluation.audit[i].event = "permission_check"
          /\ evaluation.audit[i].permission = Some(evaluation.checks[i].codename)
          /\ evaluation.audit[i].success = evaluation.checks[i].outcome

\* C19: with auditing enabled every single permission check made by has_perm,
\* check_permission, has_perms, has_any_permission and has_all_permissions
\* emits a permission_check audit event tagged with the checked codename and
\* the boolean outcome, on grants (superuser bypass included) and denials.
C19_EveryCheckAudited ==
    (settings.AUDIT_ENABLED /\ audited.entry \in PermissionEntries) =>
        ChecksAudited(audited)

\* a guard turned the request away
GuardDenied ==
    /\ audited.entry \in GuardEntries
    /\ audited.result \in {"PermissionDenied", "redirect_to_login", "False"}

\* C20: with auditing enabled, whenever one of the six guards denies an
\* authenticated user (no tenant attached, not an active member, permission
\* missing, role missing), it has emitted a failure audit event that
\* identifies the user.
C20_EveryDenialAudited ==
    (settings.AUDIT_ENABLED /\ GuardDenied /\ Val(audited.user).is_authenticated) =>
        \E i \in DOMAIN audited.audit :
            /\ ~audited.audit[i].success
            /\ audited.audit[i].user = Some(Val(audited.user).id)

\* the resolver was called for the request in progress: it is not exempt
Resolved == ~BetweenRequests /\ trace.resolved # None

\* the one resolution event of a request, as the claim has it
ResolutionEvent(with_inactive) ==
    LET result == Val(trace.resolved)
    IN  /\ Len(trace.audit) = 1
        /\ result.raised = "" =>
              /\ trace.audit[1].event = "tenant_resolved"
              /\ trace.audit[1].success
              /\ trace.audit[1].tenant = Some(result.value.id)
        /\ result.raised # "" =>
              /\ trace.audit[1].event = "tenant_resolution_failed"
              /\ ~trace.audit[1].success
              /\ (Identifier(http_request) # None
                    /\ (with_inactive \/ result.raised # "TenantInactiveError"))
                 => trace.audit[1].identifier = Identifier(http_request)

\* C21: resolution audit trail. With auditing enabled every non-exempt request
\* has exactly one resolution audit event: a tenant_resolved event exactly when
\* the resolver returned a tenant, otherwise a tenant_resolution_failed event,
\* emitted whatever the failure handler does, which carries the identifier
\* that was attempted, for not-found and inactive-tenant failures alike.
C21_ResolutionAuditTrail ==
    (Resolved /\ settings.AUDIT_ENABLED) => ResolutionEvent(TRUE)

\* C22: the audit sink never influences authorization. With auditing disabled
\* no operation hands a record to the audit logger, and no request, permission
\* query or guard ends with an error that came out of audit emission: its
\* outcome is the one it has with auditing disabled.
C22_AuditNeverInfluences ==
    /\ ~settings.AUDIT_ENABLED => (trace.audit = << >> /\ audited.audit = << >>)
    /\ trace.ended # HandlerError
    /\ audited.result # HandlerError

\* the codenames tenant t owns
OwnedCodenames(t) == {c \in Codenames : <<t, c>> \in permissions}

\* the codenames assigned to at least one active role of the active
\* membership of u in t, read off the rows
AssignedCodenames(u, t) ==
    IF <<u, t>> \in DOMAIN memberships /\ memberships[<<u, t>>].is_active
    THEN {c \in Codenames :
             \E r \in memberships[<<u, t>>].roles :
                 /\ roles[r].is_active
                 /\ \E p \in roles[r].permissions : permission_codename(p) = c}
    ELSE {}

\* C23: get_user_permissions(U, T) is, for a superuser under enabled bypass,
\* exactly the set of codenames of the permissions T owns, whatever U's
\* membership and roles; for every other user exactly the set of codenames
\* assigned to at least one active role of U's active membership in T, and
\* empty when U has no active membership in T.
C23_GetUserPermissions ==
    \A u \in Users, t \in Tenants :
        /\ get_user_permissions(Super(u), CurrentTenant(t), None) =
              IF SUPERUSER_BYPASS THEN OwnedCodenames(t) ELSE AssignedCodenames(u, t)
        /\ get_user_permissions(Plain(u), CurrentTenant(t), None) = AssignedCodenames(u, t)

\* t1 has lost its permission row while t2 still owns the codename; u1 holds
\* the codename in t2 through an active role and has no membership in t1; under
\* the bypass the superuser's set for t1 is empty and the plain user's set for
\* t2 is not
C23_Witness ==
    /\ SUPERUSER_BYPASS
    /\ OwnedCodenames("t1") = {}
    /\ OwnedCodenames("t2") # {}
    /\ <<"u1", "t1">> \notin DOMAIN memberships
    /\ get_user_permissions(Super("u1"), CurrentTenant("t1"), None) = {}
    /\ get_user_permissions(Plain("u1"), CurrentTenant("t2"), None) = {"orders.view_order"}

\* the users a guard meets, and the tenants a request arrives with
GuardUsers == {Plain(u) : u \in Users} \cup {Super(u) : u \in Users} \cup {AnonymousUser}
GuardTenants == {None} \cup {CurrentTenant(t) : t \in Tenants}

\* the store holds an active membership of the user in the tenant
HoldsActiveMembership(user, tenant) ==
    /\ tenant # None
    /\ <<user.id, Val(tenant).id>> \in DOMAIN memberships
    /\ memberships[<<user.id, Val(tenant).id>>].is_active

\* C24: tenant_login_required runs the view exactly when the user is
\* authenticated, a tenant is attached, and the bypass applies or the user has
\* an active membership in the tenant. An unauthenticated user is redirected
\* to the login and never forbidden; an authenticated user failing the tenant
\* or membership check is forbidden and never redirected; a superuser without
\* a tenant is forbidden.
C24_MembershipGuard ==
    \A user \in GuardUsers, tenant \in GuardTenants :
        LET done == tenant_login_required(Request(user, tenant, None))
        IN  /\ done = "view" <=>
                  /\ user.is_authenticated
                  /\ tenant # None
                  /\ Bypassed(user) \/ HoldsActiveMembership(user, tenant)
            /\ ~user.is_authenticated => done = "redirect_to_login"
            /\ (user.is_authenticated /\ done # "view") => done = "PermissionDenied"

\* under the bypass a superuser without a tenant is forbidden, while in t1 the
\* plain user is a member and runs the view and in t2 has an inactive
\* membership and is forbidden
C24_Witness ==
    /\ SUPERUSER_BYPASS
    /\ tenant_login_required(Request(Super("u1"), None, None)) = "PermissionDenied"
    /\ HoldsActiveMembership(Plain("u1"), CurrentTenant("t1"))
    /\ tenant_login_required(Request(Plain("u1"), CurrentTenant("t1"), None)) = "view"
    /\ <<"u1", "t2">> \in DOMAIN memberships
    /\ tenant_login_required(Request(Plain("u1"), CurrentTenant("t2"), None))
          = "PermissionDenied"

\* the required codenames are satisfied, each decided as check_permission
\* decides it: all of them in all-mode, one of them in any-mode
Satisfied(user, tenant, perm_list, require_all) ==
    IF require_all
    THEN \A c \in SeqRange(perm_list) : check_permission(user, tenant, c, None)
    ELSE \E c \in SeqRange(perm_list) : check_permission(user, tenant, c, None)

\* what the claim requires of a request before the guarded view may run
MayRun(user, tenant, perm_list, require_all) ==
    /\ user.is_authenticated
    /\ tenant # None
    /\ \/ Bypassed(user)
       \/ /\ HoldsActiveMembership(user, tenant)
          /\ Satisfied(user, tenant, perm_list, require_all)

\* the claim for the view guard tenant_permission_required
ViewGuardAsClaimed ==
    \A user \in GuardUsers, tenant \in GuardTenants, perm_list \in RequestPermLists,
       require_all \in BOOLEAN, raise_exception \in BOOLEAN :
        LET done == tenant_permission_required(perm_list, raise_exception, require_all,
                                               Request(user, tenant, None))
        IN  /\ done = "view" => MayRun(user, tenant, perm_list, require_all)
            /\ (user.is_authenticated /\ done # "view") =>
                  done = IF raise_exception THEN "PermissionDenied" ELSE "redirect_to_login"

\* the claim for the API guard TenantPermission
ApiGuardAsClaimed ==
    \A user \in GuardUsers, tenant \in GuardTenants,
       perms \in RequestPermLists \ {<< >>}, require_all \in BOOLEAN :
        TenantPermission(perms, require_all, Request(user, tenant, None))
            => MayRun(user, tenant, perms, require_all)

\* C25: tenant_permission_required and TenantPermission run the guarded view
\* only if the user is authenticated, a tenant is attached, and the superuser
\* bypass applies or the user is an active member whose permissions satisfy
\* the required codenames (all in all-mode, one in any-mode, each decided as
\* check_permission decides it). A failing authenticated user gets the
\* forbidden error when raise_exception is set and a redirect otherwise.
C25_PermissionGuard == ViewGuardAsClaimed /\ ApiGuardAsClaimed

\* the canonical format: exactly two non-empty segments joined by one dot,
\* each starting with a lowercase letter and made of lowercase letters,
\* digits and underscores
IsSegment(x) ==
    /\ x # << >>
    /\ x[1] \in LowercaseLetters
    /\ \A j \in DOMAIN x : x[j] \in LowercaseLetters \cup Digits \cup {"_"}
Canonical(codename) ==
    /\ Cardinality(Positions(codename, ".")) = 1
    /\ LET dot == Least(Positions(codename, "."))
       IN  /\ IsSegment(SubSeq(codename, 1, dot - 1))
           /\ IsSegment(SubSeq(codename, dot + 1, Len(codename)))

\* C26: codename validation. Every stored codename has the canonical format
\* (a write with another codename was rejected), (tenant, codename) is unique,
\* 'app.action_model' and 'orders.view_order' are accepted, 'InvalidFormat',
\* 'orders..bad' and 'Orders.View' are rejected, and
\* is_valid_permission_codename decides every string as the model does.
C26_CodenameValidation ==
    /\ \A row \in permissions : Canonical(row[2])
    /\ \A codename \in CodenameChoices :
          is_valid_permission_codename(codename)
              <=> permission_full_clean("t1", codename, {}).raised = ""
    /\ is_valid_permission_codename(Text_app_action_model)
    /\ is_valid_permission_codename(Text_orders_view_order)
    /\ ~is_valid_permission_codename(Text_InvalidFormat)
    /\ ~is_valid_permission_codename(Text_orders_bad)
    /\ ~is_valid_permission_codename(Text_Orders_View)

\* B = 'example.com' and the hosts named with it
Text_example_com == <<"e", "x", "a", "m", "p", "l", "e", ".", "c", "o", "m">>
Host_acme_example_com == <<"a", "c", "m", "e", ".", "e", "x", "a", "m", "p", "l", "e", ".", "c", "o", "m">>
Host_a_b_example_com == <<"a", ".", "b", ".", "e", "x", "a", "m", "p", "l", "e", ".", "c", "o", "m">>
Host_dot_example_com == <<".", "e", "x", "a", "m", "p", "l", "e", ".", "c", "o", "m">>
Host_acme_example_com_evil_com == <<"a", "c", "m", "e", ".", "e", "x", "a", "m", "p", "l", "e", ".", "c", "o", "m", ".", "e", "v", "i", "l", ".", "c", "o", "m">>
Host_acme_example_com_port == <<"a", "c", "m", "e", ".", "e", "x", "a", "m", "p", "l", "e", ".", "c", "o", "m", ":", "8", "0", "0", "0">>
SubdomainHosts ==
    RequestHosts \cup {Text_example_com, Host_acme_example_com, Host_a_b_example_com,
                       Host_dot_example_com, Host_acme_example_com_evil_com,
                       Host_acme_example_com_port}
BaseDomains == {Text_example_com, <<"B", ".", "i", "o">>, <<"i", "o">>}

\* the slugs a host names under a base domain: every text s without a dot and
\* not empty such that the host, without its port and in lowercase, is s, then
\* nothing or a dot and more labels, then a dot and the base domain
NamedUnder(base_domain, host) ==
    LET h == lower(FirstPart(host, ":"))
        base == lower(base_domain)
    IN  {SubSeq(h, 1, n) : n \in {k \in 1..Len(h) :
                                     /\ \A i \in 1..k : h[i] # "."
                                     /\ k + 1 + Len(base) <= Len(h)
                                     /\ h[k + 1] = "."
                                     /\ SubSeq(h, Len(h) - Len(base), Len(h))
                                           = <<".">> \o base}}

\* C27: subdomain extraction. With base domain B, for every host, without its
\* port and in lowercase, the subdomain resolver takes as tenant slug the
\* leftmost label of what is left of the suffix ".B", and raises
\* TenantNotFoundError when the host does not end with ".B" or that label is
\* empty. Under 'example.com', 'acme.example.com' gives 'acme',
\* 'a.b.example.com' gives 'a', and 'example.com', '.example.com' and
\* 'acme.example.com.evil.com' fail.
C27_SubdomainExtraction ==
    /\ \A base \in BaseDomains \cup {settings.BASE_DOMAIN} : \A host \in SubdomainHosts :
          LET named == NamedUnder(base, host)
              subdomain == extract_subdomain_under(base, FirstPart(host, ":"))
          IN  /\ Cardinality(named) <= 1
              /\ named = {} <=> subdomain = None
              /\ named # {} => subdomain = Some(CHOOSE s \in named : TRUE)
    /\ extract_subdomain_under(Text_example_com, Host_acme_example_com)
          = Some(<<"a", "c", "m", "e">>)
    /\ extract_subdomain_under(Text_example_com, Host_a_b_example_com) = Some(<<"a">>)
    /\ extract_subdomain_under(Text_example_com, Text_example_com) = None
    /\ extract_subdomain_under(Text_example_com, Host_dot_example_com) = None
    /\ extract_subdomain_under(Text_example_com, Host_acme_example_com_evil_com) = None
    /\ (settings.TENANT_RESOLUTION_STRATEGY = "subdomain" /\ Resolved) =>
          LET named == NamedUnder(settings.BASE_DOMAIN, http_request.host)
              result == Val(trace.resolved)
          IN  IF named = {}
              THEN result.raised = "TenantNotFoundError"
              ELSE result = get_tenant_by_slug(CHOOSE s \in named : TRUE)

\* a host with a nested subdomain was resolved to the tenant of its leftmost
\* label
C27_Witness ==
    /\ settings.TENANT_RESOLUTION_STRATEGY = "subdomain"
    /\ Resolved
    /\ http_request.host = <<"a", "b", ".", "x", ".", "b", ".", "i", "o">>
    /\ NamedUnder(settings.BASE_DOMAIN, http_request.host) = {<<"a", "b">>}
    /\ Val(trace.resolved).raised = ""
    /\ lower(Val(trace.resolved).value.slug) = <<"a", "b">>

\* C28: enumerated permissions are granted. For every user the bypass does not
\* cover and every tenant, active or not, each codename in
\* get_user_permissions(U, T) is granted by check_permission(U, T, P) on the
\* same store; on a new TenantUser each codename in get_all_permissions() is
\* granted by has_perm.
C28_EnumeratedAreGranted ==
    \A user \in UserObjects, t \in Tenants :
        ~Bypassed(user) =>
            /\ \A P \in get_user_permissions(user, CurrentTenant(t), None) :
                  check_permission(user, CurrentTenant(t), P, None)
            /\ \A P \in get_all_permissions(Fresh(user, t)).ret :
                  has_perm(Fresh(user, t), P).ret

\* the same over the tenants that are active
C28_EnumeratedAreGrantedInActiveTenants ==
    \A user \in UserObjects, t \in Tenants :
        (~Bypassed(user) /\ tenant_is_active[t]) =>
            /\ \A P \in get_user_permissions(user, CurrentTenant(t), None) :
                  check_permission(user, CurrentTenant(t), P, None)
            /\ \A P \in get_all_permissions(Fresh(user, t)).ret :
                  has_perm(Fresh(user, t), P).ret

\* one operation on what tenant t1 owns: a role of t1 activated or deactivated,
\* a permission of t1 added to or removed from a role of t1, a permission of t1
\* created or deleted, a membership of t1 created, changed or deleted
OperationOn(t1) ==
    \/ \E r \in Roles, b \in BOOLEAN : role_tenant_id(r) = t1 /\ SetRoleActive(r, b)
    \/ \E r \in Roles, p \in Permissions :
          /\ role_tenant_id(r) = t1
          /\ permission_tenant_id(p) = t1
          /\ (AddPermission(r, p) \/ RolePermissionsRemove(r, p))
    \/ \E p \in Permissions :
          permission_tenant_id(p) = t1 /\ (CreatePermission(p) \/ DeletePermission(p))
    \/ \E u \in Users, b \in BOOLEAN :
          CreateMembership(u, t1, b) \/ SetMembershipActive(<<u, t1>>, b)
    \/ \E u \in Users, rs \in SUBSET Roles, b \in BOOLEAN : AddMember(t1, u, rs, b)
    \/ \E u \in Users, r \in Roles : AddRole(<<u, t1>>, r) \/ RemoveRole(<<u, t1>>, r)
    \/ \E u \in Users : DeleteMembership(<<u, t1>>)

\* what the library answers about a user in a tenant
Answers(user, t) ==
    [check_permission |-> [P \in Codenames |->
                              check_permission(user, CurrentTenant(t), P, None)],
     get_user_permissions |-> get_user_permissions(user, CurrentTenant(t), None)]

\* C29: cross-tenant non-interference. One operation on objects owned by
\* tenant T1 leaves check_permission(U, T2, P) and get_user_permissions(U, T2)
\* as they were, for every other tenant T2, every user U and every codename P,
\* in every state reached through add_member, add_role, remove_role and
\* add_permission.
C29_CrossTenantNonInterference ==
    [][\A t1 \in Tenants :
          OperationOn(t1) =>
              \A t2 \in Tenants \ {t1}, user \in UserObjects :
                  Answers(user, t2)' = Answers(user, t2)]_vars

\* the same from the states where every role of a membership is owned by the
\* membership's tenant
C29_NonInterferenceOfOwnedRoles ==
    [][\A t1 \in Tenants :
          (OperationOn(t1) /\ C2_CrossTenantAssignmentRejected) =>
              \A t2 \in Tenants \ {t1}, user \in UserObjects :
                  Answers(user, t2)' = Answers(user, t2)]_vars

----------------------------------------------------------------------------
(* A permission evaluation statement by statement, while other requests write *)
(* to the store. check_permission reads the tenant object it was given, then   *)
(* runs TenantMembership.objects.get(...), then membership.has_permission,     *)
(* which runs roles.filter(...).exists(): two queries and no transaction.      *)

\* at this instant the store holds an active tenant t, an active membership of
\* u in t and an active role on that membership with P assigned
HeldNow(u, t, P) == tenant_is_active[t] /\ ActiveRow(u, t) /\ RoleGrants(u, t, P)

Evaluating(c) == calls[c].pc \in {"validated", "fetched"}
Returned(call, result, held) ==
    [pc |-> "returned", entry |-> call.entry, user |-> call.user, t |-> call.t,
     codename |-> call.codename, result |-> result, witnessed |-> held]

\* what the evaluation in progress has seen of the store so far
Witnessing(call) == call.witnessed \/ HeldNow(call.user.id, call.t, call.codename)

\* permissions.py 207-218: the bypass test and validate_tenant_context, of a
\* call that has its membership argument or has none
Validated(call, prefetched) ==
    IF SUPERUSER_BYPASS /\ call.user.is_superuser
    THEN Returned(call, TRUE, Witnessing(call))
    ELSE IF validate_tenant_context(call.tenant).raised # ""
         THEN Returned(call, FALSE, Witnessing(call))
         ELSE IF prefetched = None
              THEN [call EXCEPT !.witnessed = Witnessing(call)]
              ELSE [call EXCEPT !.pc = "fetched", !.membership = prefetched,
                                !.witnessed = Witnessing(call)]

\* PermissionChecker.check_permission(user, tenant, P) begins: the tenant is the
\* object as the caller has just loaded it
CheckPermissionBegins(c, user, t, P) ==
    /\ calls[c] = Idle
    /\ calls' = [calls EXCEPT ![c] =
                    Validated([pc |-> "validated", entry |-> "check_permission",
                               user |-> user, t |-> t, tenant |-> CurrentTenant(t),
                               codename |-> P, membership |-> None,
                               witnessed |-> FALSE], None)]
    /\ UNCHANGED <<table, notTableVars>>

\* TenantUser(user, tenant).has_perm(P) on a new instance begins: the
\* membership property runs its query, then check_permission is entered with
\* what the query returned
HasPermBegins(c, user, t, P) ==
    /\ calls[c] = Idle
    /\ calls' = [calls EXCEPT ![c] =
                    Validated([pc |-> "validated", entry |-> "has_perm",
                               user |-> user, t |-> t, tenant |-> CurrentTenant(t),
                               codename |-> P, membership |-> None,
                               witnessed |-> FALSE],
                              membership(TenantUser(user, CurrentTenant(t))).ret)]
    /\ UNCHANGED <<table, notTableVars>>

\* permissions.py 221-230: TenantMembership.objects.get(user, tenant, is_active=True)
MembershipGet(c) ==
    /\ calls[c].pc = "validated"
    /\ LET call == calls[c]
           found == ActiveMembership(call.user, call.tenant)
       IN  calls' = [calls EXCEPT ![c] =
                       IF found = None
                       THEN Returned(call, FALSE, Witnessing(call))
                       ELSE [call EXCEPT !.pc = "fetched", !.membership = found,
                                         !.witnessed = Witnessing(call)]]
    /\ UNCHANGED <<table, notTableVars>>

\* permissions.py 233: return membership.has_permission(permission_codename)
HasPermission(c) ==
    /\ calls[c].pc = "fetched"
    /\ LET call == calls[c]
       IN  calls' = [calls EXCEPT ![c] =
                       Returned(call,
                                membership_has_permission(Val(call.membership), call.codename),
                                Witnessing(call))]
    /\ UNCHANGED <<table, notTableVars>>

\* the caller has its answer
EvaluationReturns(c) ==
    /\ calls[c].pc = "returned"
    /\ calls' = [calls EXCEPT ![c] = Idle]
    /\ UNCHANGED <<table, notTableVars>>

\* the record of what the store held during the call is brought up to date
Witness(c) ==
    /\ Evaluating(c)
    /\ ~calls[c].witnessed
    /\ HeldNow(calls[c].user.id, calls[c].t, calls[c].codename)
    /\ calls' = [calls EXCEPT ![c].witnessed = TRUE]
    /\ UNCHANGED <<table, notTableVars>>

\* no write leaves a state of the store unrecorded
AllWitnessed == \A c \in CallIds : Evaluating(c) => calls[c].witnessed = Witnessing(calls[c])

\* one evaluation at a time on tenant t1 while the other requests deactivate
\* and reactivate the tenant, the membership and the role and change the role
\* and permission assignments
EvaluationIds == {1}
NextConcurrent ==
    \/ \E c \in EvaluationIds, user \in UserObjects, t \in RequestTenants, P \in Codenames :
          CheckPermissionBegins(c, user, t, P)
    \/ \E c \in EvaluationIds, user \in UserObjects, t \in RequestTenants, P \in Codenames :
          HasPermBegins(c, user, t, P)
    \/ \E c \in EvaluationIds : MembershipGet(c)
    \/ \E c \in EvaluationIds : HasPermission(c)
    \/ \E c \in EvaluationIds : EvaluationReturns(c)
    \/ \E c \in EvaluationIds : Witness(c)
    \/ \E t \in RequestTenants, u \in Users, rs \in SUBSET RequestRoles, b \in BOOLEAN :
          AllWitnessed /\ AddMember(t, u, rs, b)
    \/ \E m \in Users \X RequestTenants, r \in RequestRoles : AllWitnessed /\ AddRole(m, r)
    \/ \E m \in Users \X RequestTenants, r \in RequestRoles : AllWitnessed /\ RemoveRole(m, r)
    \/ \E r \in RequestRoles, p \in RequestPermissions : AllWitnessed /\ AddPermission(r, p)
    \/ \E r \in RequestRoles, p \in RequestPermissions :
          AllWitnessed /\ RolePermissionsRemove(r, p)
    \/ \E t \in RequestTenants, b \in BOOLEAN : AllWitnessed /\ SetTenantActive(t, b)
    \/ \E m \in Users \X RequestTenants, b \in BOOLEAN :
          AllWitnessed /\ SetMembershipActive(m, b)
    \/ \E r \in RequestRoles, b \in BOOLEAN : AllWitnessed /\ SetRoleActive(r, b)

SpecConcurrent == Init /\ [][NextConcurrent]_vars

\* C30: no phantom grant under concurrent writes. An evaluation for a user the
\* bypass does not cover, by check_permission or by has_perm of a new
\* TenantUser, returns true only if at one instant between its start (the
\* instance's first membership lookup) and its return the store held an active
\* tenant, an active membership of the user in it, and an active role on that
\* membership with the codename assigned.
C30_NoPhantomGrant ==
    \A c \in CallIds :
        ( /\ calls[c].pc = "returned"
          /\ ~Bypassed(calls[c].user)
          /\ calls[c].result )
        => calls[c].witnessed

====
